---- MODULE Spec2Model ----
(***************************************************************************)
(* A model of the Olive scripting language implementation: the AST to      *)
(* bytecode compiler (src/src/codegen.rs), the bytecode interpreter with   *)
(* its scope chain and reference-counted handles                           *)
(* (src/src/interpreter/mod.rs, object.rs) and the tracing collector       *)
(* (src/src/interpreter/garbage.rs, data.rs).                              *)
(*                                                                         *)
(* Indices into code sequences are 0-based as in the source; a TLA+        *)
(* sequence s holds the operation with index i at s[i + 1].                *)
(***************************************************************************)
EXTENDS Integers, Sequences, FiniteSets, TLC

(***************************************************************************)
(* Bounds of the model.                                                    *)
(***************************************************************************)
\* most statements (at any depth) of a tree the AST builder produces
MaxStmts == 3
\* most parameters / pushed values of the parametric call programs
MaxParams == 2
\* most objects the tracing collector's heap holds
MaxObjs == 3
\* most collections run in one behaviour of the collector
MaxRuns == 2
\* most references stored into the lists and bendies of the collector's heap
MaxLinks == 2
\* largest index of the programs that put into and get from a list or string
MaxIndex == 3

(***************************************************************************)
(* Small helpers on sequences and maps.                                    *)
(***************************************************************************)
\* Vec index assignment v[i] = x, i 0-based
SetAt(s, i, x) == [s EXCEPT ![i + 1] = x]

\* HashMap::insert
MapInsert(m, k, x) == [n \in (DOMAIN m) \cup {k} |-> IF n = k THEN x ELSE m[n]]

\* HashMap::new
EmptyMap == [n \in {} |-> 0]

RECURSIVE SumSeq(_)
SumSeq(s) == IF s = <<>> THEN 0 ELSE Head(s) + SumSeq(Tail(s))

\* the elements of a sequence, as a set
Range(s) == {s[i] : i \in 1..Len(s)}

(***************************************************************************)
(* codegen.rs: enum Code.  An operation is a record with its name in op    *)
(* and its operands in further fields.                                     *)
(***************************************************************************)
Op0(name) == [op |-> name]
PushByte(n) == [op |-> "PushByte", n |-> n]
PushShort(n) == [op |-> "PushShort", n |-> n]
PushInt(n) == [op |-> "PushInt", n |-> n]
PushLong(n) == [op |-> "PushLong", n |-> n]
PushDouble(num, den) == [op |-> "PushDouble", num |-> num, den |-> den]
PushBoolean(b) == [op |-> "PushBoolean", b |-> b]
PushString(s) == [op |-> "PushString", s |-> s]
JumpNot(off) == [op |-> "JumpNot", off |-> off]
Jump(off) == [op |-> "Jump", off |-> off]
Goto(off) == [op |-> "Goto", off |-> off]
Store(name) == [op |-> "Store", name |-> name]
Load(name) == [op |-> "Load", name |-> name]
PushFun(args, codes) == [op |-> "PushFun", args |-> args, codes |-> codes]

IsJump(c) == c.op \in {"JumpNot", "Jump", "Goto"}

(***************************************************************************)
(* oliveparser/src/ast.rs: Located<Expression>, Located<Statement>.        *)
(* A node is a record; e / s names the variant.  start is the node's       *)
(* source offset (Located::start), kept where codegen reads it.  An        *)
(* integer literal carries the number its digits denote.                   *)
(***************************************************************************)
EInteger(v) == [e |-> "Integer", value |-> v, start |-> 0]
EFloat(num, den) == [e |-> "Float", num |-> num, den |-> den, start |-> 0]
EBoolean(b) == [e |-> "Boolean", value |-> b, start |-> 0]
EString(s) == [e |-> "String", value |-> s, start |-> 0]
ENone == [e |-> "None", start |-> 0]
EVariable(name, st) == [e |-> "Variable", name |-> name, start |-> st]
EBinary(l, o, r, st) == [e |-> "Binary", left |-> l, right |-> r, operator |-> o, start |-> st]
EUnary(o, x, st) == [e |-> "Unary", expression |-> x, operator |-> o, start |-> st]
EIndex(x, i, st) == [e |-> "Index", expression |-> x, index |-> i, start |-> st]
ECall(f, args, st) == [e |-> "Call", expression |-> f, args |-> args, start |-> st]
EList(elements) == [e |-> "List", elements |-> elements, start |-> 0]
EBendy(elements) == [e |-> "Bendy", elements |-> elements, start |-> 0]
EFunction(parameters, block) == [e |-> "Function", parameters |-> parameters, block |-> block, start |-> 0]

SReturn(v) == [s |-> "Return", value |-> v]
SBlock(sts) == [s |-> "Block", statements |-> sts]
SWhile(c, b) == [s |-> "While", condition |-> c, block |-> b]
SIf(c, b) == [s |-> "If", condition |-> c, block |-> b, haselse |-> FALSE, elseblock |-> <<>>]
SIfElse(c, b, eb) == [s |-> "If", condition |-> c, block |-> b, haselse |-> TRUE, elseblock |-> eb]
SAssign(l, r) == [s |-> "Assign", left |-> l, right |-> r]
SCall(f, args, st) == [s |-> "Call", expression |-> f, args |-> args, start |-> st]
SBreak(st) == [s |-> "Break", start |-> st]
SContinue(st) == [s |-> "Continue", start |-> st]

(***************************************************************************)
(* The Mistake<(u32, Vec<usize>), OliveError> a generator returns,         *)
(* together with the codes and code_pos_table it has written by then       *)
(* (both are &mut parameters in the source).  fine: Fine(..) / Fail(..);   *)
(* panicked: a panic!() or failed assert_eq! was hit on the way.           *)
(* placed is a history field, not in the source: the places where a break  *)
(* or continue placeholder was emitted, each a path <<i1, .., ik, p>>:     *)
(* position p of the body of the PushFun at i1 of ... at ik (all 0-based). *)
(***************************************************************************)
Fine(codes, cpt, size, bps, errors, panicked, placed) ==
    [fine |-> TRUE, codes |-> codes, cpt |-> cpt, size |-> size, bps |-> bps,
     errors |-> errors, panicked |-> panicked, placed |-> placed]

Fail(codes, cpt, errors, panicked, placed) ==
    [fine |-> FALSE, codes |-> codes, cpt |-> cpt, size |-> 0, bps |-> <<>>,
     errors |-> errors, panicked |-> panicked, placed |-> placed]

\* OliveError::new_code_error
CodeError(kind, pos) == [kind |-> kind, pos |-> pos]

\* HashMap::insert on the code_pos_table
CptInsert(cpt, k, v) == MapInsert(cpt, k, v)

\* HashMap::extend: the entries of other win
CptExtend(cpt, other) ==
    [k \in (DOMAIN cpt) \cup (DOMAIN other) |-> IF k \in DOMAIN other THEN other[k] ELSE cpt[k]]

\* the largest i8 / i16 (the literals of the model stay below 2^31, so the
\* PushLong and ParseInteger branches of the source are not reached)
I8Max == 127
I16Max == 32767

\* codegen.rs push_integer: the narrowest push that holds an index
push_integer(codes, value) ==
    IF value <= I8Max THEN Append(codes, PushByte(value))
    ELSE IF value <= I16Max THEN Append(codes, PushShort(value))
    ELSE Append(codes, PushInt(value))

\* the operation a plain binary operator compiles to (codegen.rs 246-266)
BinaryCode(operator) == Op0(operator)

PlainBinaryOperators ==
    {"Add", "Sub", "Mul", "Mod", "FloatDiv", "IntDiv", "BitAnd", "BitOr", "BitXOr",
     "BitLsh", "BitRsh", "Concat", "Equals", "NotEquals", "LessEquals", "LessThan",
     "GreaterEquals", "GreaterThan"}

\* the placeholder offsets of break and continue (codegen.rs 666, 672)
BreakPlaceholder == 0
ContinuePlaceholder == 1

\* a break that lands on the loop's backward Goto
BreakOffsetToGoto(block_size, position, first_jump_index) ==
    block_size - (position - first_jump_index) + 1

\* the offset a while loop patches into a break at position, codegen.rs 647-649
BreakOffset(block_size, position, first_jump_index) ==
    block_size - (position - first_jump_index) + 2

\* a continue that jumps forward by the distance it should jump back
ContinueOffsetForward(condition_size, position, first_jump_index) ==
    (position - first_jump_index) + condition_size

\* the offset a while loop patches into a continue at position, codegen.rs 652-653
ContinueOffset(condition_size, position, first_jump_index) ==
    -((position - first_jump_index) + condition_size)

\* the backward Goto closing a while loop, codegen.rs 636-639
WhileBackOffset(block_size, condition_size) == -(block_size + condition_size + 1)

\* the JumpNot leaving a while loop, codegen.rs 641
WhileExitOffset(block_size) == block_size + 2

\* the JumpNot of an if, codegen.rs 553
IfJumpOffset(block_size, else_bonus) == block_size + 1 + else_bonus

\* the Goto that skips the else block, codegen.rs 536
ElseSkipOffset(else_size) == else_size + 1

\* a jump that lands on the first operation of the right operand
ShortCircuitOffsetToRight(right_size) == 1

\* the Jump / JumpNot of `or` / `and` over the right operand, codegen.rs 179, 202
ShortCircuitOffset(right_size) == right_size + 2

RECURSIVE generate_expr(_, _, _)
RECURSIVE generate_args(_, _, _)
RECURSIVE args_rest(_, _)
RECURSIVE generate_list_elements(_, _, _, _)
RECURSIVE list_rest(_, _, _)
RECURSIVE generate_bendy_elements(_, _, _)
RECURSIVE bendy_rest(_, _)
RECURSIVE generate_short_circuit(_, _, _, _, _)
RECURSIVE short_circuit_right(_, _, _, _)
RECURSIVE generate_access(_, _, _)
RECURSIVE generate_pair(_, _, _, _, _, _)
RECURSIVE pair_right(_, _, _, _)
RECURSIVE generate_call(_, _, _, _)
RECURSIVE call_callee(_, _, _)
RECURSIVE generate_lhs(_, _, _)
RECURSIVE lhs_index_right(_, _)
RECURSIVE generate_stmt(_, _, _)
RECURSIVE generate_if(_, _, _)
RECURSIVE if_block(_, _)
RECURSIVE if_else(_, _, _)
RECURSIVE generate_assign(_, _, _)
RECURSIVE assign_right(_, _)
RECURSIVE generate_while(_, _, _)
RECURSIVE while_block(_, _)
RECURSIVE generate_block(_, _, _)
RECURSIVE block_rest(_, _)
RECURSIVE generate_codes(_)
RECURSIVE PatchBreaks(_, _, _, _, _)

(***************************************************************************)
(* codegen.rs 85-405: impl Generatable for Located<Expression>, generate.  *)
(* x: the expression; codes, cpt: the code vector and code_pos_table       *)
(* written so far.  A generator that compiles several parts is written as  *)
(* a chain of operators, one per part, each taking the results of the      *)
(* parts before it (l, r, c, b, ...) and ending in the one named .._done   *)
(* that assembles the result.                                              *)
(***************************************************************************)
\* what a loop over sub-expressions has written: sizes holds each one's
\* size, -1 for one that failed (the Option<u32> of the source)
Parts(codes, cpt, sizes, errors, panicked, placed) ==
    [codes |-> codes, cpt |-> cpt, sizes |-> sizes, errors |-> errors,
     panicked |-> panicked, placed |-> placed]

NoParts(codes, cpt) == Parts(codes, cpt, <<>>, <<>>, FALSE, {})

PartSize(a) == IF a.fine THEN a.size ELSE -1

AnyFailed(sizes) == \E i \in 1..Len(sizes) : sizes[i] < 0

\* the part a before the parts rest
PartsCons(a, rest) ==
    Parts(rest.codes, rest.cpt, <<PartSize(a)>> \o rest.sizes, a.errors \o rest.errors,
          a.panicked \/ rest.panicked, a.placed \cup rest.placed)

\* the argument list of a call, left to right (codegen.rs 292-303, 563-574)
generate_args(args, codes, cpt) ==
    IF args = <<>> THEN NoParts(codes, cpt)
    ELSE args_rest(generate_expr(Head(args), codes, cpt), Tail(args))

args_rest(a, rest) == PartsCons(a, generate_args(rest, a.codes, a.cpt))

\* the elements of a list literal from index i on (codegen.rs 325-341)
generate_list_elements(elements, i, codes, cpt) ==
    IF elements = <<>> THEN NoParts(codes, cpt)
    ELSE list_rest(generate_expr(Head(elements),
                                 push_integer(Append(codes, Op0("Dup")), i), cpt),
                   Tail(elements), i)

list_rest(a, rest, i) ==
    PartsCons(a, generate_list_elements(rest, i + 1, Append(a.codes, Op0("Put")), a.cpt))

\* the (name, value) pairs of a bendy literal (codegen.rs 358-373)
generate_bendy_elements(elements, codes, cpt) ==
    IF elements = <<>> THEN NoParts(codes, cpt)
    ELSE bendy_rest(generate_expr(Head(elements)[2],
                                  Append(Append(codes, Op0("Dup")),
                                         PushString(Head(elements)[1])), cpt),
                    Tail(elements))

bendy_rest(a, rest) ==
    PartsCons(a, generate_bendy_elements(rest, Append(a.codes, Op0("Put")), a.cpt))

\* a list or bendy literal after its elements (codegen.rs 342-350, 374-382)
composite_done(r) ==
    IF AnyFailed(r.sizes) THEN Fail(r.codes, r.cpt, r.errors, r.panicked, r.placed)
    ELSE Fine(r.codes, r.cpt, 1 + SumSeq(r.sizes) + 3 * Len(r.sizes), <<>>,
              r.errors, r.panicked, r.placed)

\* `and` / `or` (codegen.rs 163-208): jump is JumpNot resp. Jump, sentinel the
\* Boolean pushed when the right operand is skipped
short_circuit_done(l, r, jump, sentinel) ==
    LET first_jump_index == Len(l.codes)
        errors == l.errors \o r.errors
        panicked == l.panicked \/ r.panicked
        placed == l.placed \cup r.placed
    IN IF ~r.fine \/ ~l.fine THEN Fail(r.codes, r.cpt, errors, panicked, placed)
       ELSE Fine(Append(Append(SetAt(r.codes, first_jump_index,
                                     [op |-> jump, off |-> ShortCircuitOffset(r.size)]),
                               Goto(2)),
                        PushBoolean(sentinel)),
                 r.cpt, 3 + l.size + r.size, <<>>, errors, panicked, placed)

short_circuit_right(x, l, jump, sentinel) ==
    short_circuit_done(l, generate_expr(x.right, Append(l.codes, [op |-> jump, off |-> 0]),
                                        l.cpt),
                       jump, sentinel)

generate_short_circuit(x, codes, cpt, jump, sentinel) ==
    short_circuit_right(x, generate_expr(x.left, codes, cpt), jump, sentinel)

\* a.name (codegen.rs 209-231)
access_done(x, l) ==
    IF x.right.e # "Variable"
    THEN Fail(l.codes, l.cpt, Append(l.errors, CodeError("Access", x.right.start)),
              l.panicked, l.placed)
    ELSE IF ~l.fine THEN Fail(l.codes, l.cpt, l.errors, l.panicked, l.placed)
    ELSE Fine(Append(Append(l.codes, PushString(x.right.name)), Op0("Get")),
              l.cpt, l.size + 2, <<>>, l.errors, l.panicked, l.placed)

generate_access(x, codes, cpt) == access_done(x, generate_expr(x.left, codes, cpt))

\* left, right, then one operation op whose position is recorded
\* (codegen.rs 232-268 with the operator's code, 270-286 with Get)
pair_done(l, r, start, op) ==
    LET errors == l.errors \o r.errors
        panicked == l.panicked \/ r.panicked
        placed == l.placed \cup r.placed
    IN IF ~l.fine \/ ~r.fine THEN Fail(r.codes, r.cpt, errors, panicked, placed)
       ELSE Fine(Append(r.codes, op), CptInsert(r.cpt, Len(r.codes), start),
                 l.size + r.size + 1, <<>>, errors, panicked, placed)

pair_right(l, right, start, op) ==
    pair_done(l, generate_expr(right, l.codes, l.cpt), start, op)

generate_pair(left, right, start, op, codes, cpt) ==
    pair_right(generate_expr(left, codes, cpt), right, start, op)

\* f(a1, ..., an): the arguments, the callee, Call and the operations after
\* it: none for a call expression (codegen.rs 291-321), Pop for a call
\* statement (codegen.rs 562-593)
call_done(x, as, f, after) ==
    LET errors == as.errors \o f.errors
        panicked == as.panicked \/ f.panicked
        placed == as.placed \cup f.placed
    IN IF AnyFailed(as.sizes) \/ ~f.fine THEN Fail(f.codes, f.cpt, errors, panicked, placed)
       ELSE Fine(Append(f.codes, Op0("Call")) \o after,
                 CptInsert(f.cpt, Len(f.codes), x.start),
                 1 + Len(after) + f.size + SumSeq(as.sizes), <<>>, errors, panicked, placed)

call_callee(x, as, after) ==
    call_done(x, as, generate_expr(x.expression, as.codes, as.cpt), after)

generate_call(x, codes, cpt, after) ==
    call_callee(x, generate_args(x.args, codes, cpt), after)

\* a literal: one push (codegen.rs 97-142, 287-290)
generate_push(code, codes, cpt) == Fine(Append(codes, code), cpt, 1, <<>>, <<>>, FALSE, {})

\* a unary operation after its operand (codegen.rs 143-160)
unary_done(x, r) ==
    IF ~r.fine THEN Fail(r.codes, r.cpt, r.errors, r.panicked, r.placed)
    ELSE Fine(Append(r.codes, Op0(x.operator)), CptInsert(r.cpt, Len(r.codes), x.start),
              r.size + 1, <<>>, r.errors, r.panicked, r.placed)

\* a function literal after its body has been compiled by generate_codes
\* into a code vector of its own (codegen.rs 386-402)
function_done(x, inner, codes, cpt) ==
    IF ~inner.fine THEN Fail(codes, cpt, inner.errors, inner.panicked, {})
    ELSE Fine(Append(codes, PushFun(x.parameters, inner.codes)),
              CptExtend(cpt, inner.cpt), 1, <<>>, inner.errors, inner.panicked,
              {<<Len(codes)>> \o path : path \in inner.placed})

generate_expr(x, codes, cpt) ==
    CASE x.e = "Integer" ->
           generate_push(IF x.value <= I8Max THEN PushByte(x.value)
                         ELSE IF x.value <= I16Max THEN PushShort(x.value)
                         ELSE PushInt(x.value), codes, cpt)
      [] x.e = "Float" -> generate_push(PushDouble(x.num, x.den), codes, cpt)
      [] x.e = "Boolean" -> generate_push(PushBoolean(x.value), codes, cpt)
      [] x.e = "None" -> generate_push(Op0("PushNone"), codes, cpt)
      [] x.e = "String" -> generate_push(PushString(x.value), codes, cpt)
      [] x.e = "Unary" -> unary_done(x, generate_expr(x.expression, codes, cpt))
      [] x.e = "Binary" /\ x.operator = "BoolAnd" ->
           generate_short_circuit(x, codes, cpt, "JumpNot", FALSE)
      [] x.e = "Binary" /\ x.operator = "BoolOr" ->
           generate_short_circuit(x, codes, cpt, "Jump", TRUE)
      [] x.e = "Binary" /\ x.operator = "Access" -> generate_access(x, codes, cpt)
      [] x.e = "Binary" /\ x.operator \in PlainBinaryOperators ->
           generate_pair(x.left, x.right, x.start, BinaryCode(x.operator), codes, cpt)
      [] x.e = "Index" ->
           generate_pair(x.expression, x.index, x.start, Op0("Get"), codes, cpt)
      [] x.e = "Call" -> generate_call(x, codes, cpt, <<>>)
      [] x.e = "List" ->
           composite_done(generate_list_elements(x.elements, 0,
                                                 Append(codes, Op0("PushList")), cpt))
      [] x.e = "Bendy" ->
           composite_done(generate_bendy_elements(x.elements,
                                                  Append(codes, Op0("PushBendy")), cpt))
      [] x.e = "Variable" ->
           Fine(Append(codes, Load(x.name)), CptInsert(cpt, Len(codes), x.start),
                1, <<>>, <<>>, FALSE, {})
      [] x.e = "Function" -> function_done(x, generate_codes(x.block), codes, cpt)

(***************************************************************************)
(* codegen.rs 407-486: generate_lhs, the address of an assignment target.  *)
(* The result's bps is unused (the source returns the size alone).         *)
(***************************************************************************)
lhs_access_done(x, l) ==
    IF x.right.e # "Variable"
    THEN Fail(l.codes, l.cpt, Append(l.errors, CodeError("Access", x.right.start)),
              l.panicked, l.placed)
    ELSE IF ~l.fine THEN Fail(l.codes, l.cpt, l.errors, l.panicked, l.placed)
    ELSE Fine(Append(l.codes, PushString(x.right.name)), l.cpt, l.size + 1,
              <<>>, l.errors, l.panicked, l.placed)

lhs_index_done(l, r) ==
    IF ~l.fine \/ ~r.fine
    THEN Fail(r.codes, r.cpt, l.errors \o r.errors, l.panicked \/ r.panicked,
              l.placed \cup r.placed)
    ELSE Fine(r.codes, r.cpt, l.size + r.size, <<>>, l.errors \o r.errors,
              l.panicked \/ r.panicked, l.placed \cup r.placed)

lhs_index_right(x, l) == lhs_index_done(l, generate_expr(x.index, l.codes, l.cpt))

generate_lhs(x, codes, cpt) ==
    CASE x.e = "Binary" /\ x.operator = "Access" ->
           lhs_access_done(x, generate_expr(x.left, codes, cpt))
      [] x.e = "Index" -> lhs_index_right(x, generate_expr(x.expression, codes, cpt))
      [] x.e = "Variable" -> Fine(codes, cpt, 0, <<>>, <<>>, FALSE, {})
      [] OTHER -> Fail(codes, cpt, <<CodeError("Assign", x.start)>>, FALSE, {})

(***************************************************************************)
(* codegen.rs 489-678: impl Generatable for Located<Statement>, generate.  *)
(***************************************************************************)
\* codegen.rs 644-657: a while loop patches the break / continue placeholders
\* its body carried out; anything else at such a position is a panic!()
PatchBreaks(codes, positions, block_size, condition_size, first_jump_index) ==
    IF positions = <<>> THEN [codes |-> codes, panicked |-> FALSE]
    ELSE LET position == Head(positions)
             c == codes[position + 1]
             isBreak == c.op = "Goto" /\ c.off = BreakPlaceholder
             isContinue == c.op = "Goto" /\ c.off = ContinuePlaceholder
             patched ==
                 IF isBreak
                 THEN SetAt(codes, position,
                            Goto(BreakOffset(block_size, position, first_jump_index)))
                 ELSE IF isContinue
                 THEN SetAt(codes, position,
                            Goto(ContinueOffset(condition_size, position, first_jump_index)))
                 ELSE codes
             rest == PatchBreaks(patched, Tail(positions), block_size, condition_size,
                                 first_jump_index)
         IN [codes |-> rest.codes, panicked |-> rest.panicked \/ ~(isBreak \/ isContinue)]

\* codegen.rs 510-561: c, b, eb are the condition, the block and the else
\* block (an empty Fine when there is none)
if_done(st, c, b, eb) ==
    LET first_jump_index == Len(c.codes)
        else_bonus == IF st.haselse THEN 1 ELSE 0
        second_jump_index == Len(b.codes)
        codes2 == IF st.haselse /\ eb.fine
                  THEN SetAt(eb.codes, second_jump_index, Goto(ElseSkipOffset(eb.size)))
                  ELSE eb.codes
        else_size == IF st.haselse THEN eb.size + 1 ELSE 0
        errors == c.errors \o b.errors \o eb.errors
        panicked == c.panicked \/ b.panicked \/ eb.panicked
        placed == c.placed \cup b.placed \cup eb.placed
    IN IF ~eb.fine \/ ~c.fine \/ ~b.fine THEN Fail(codes2, eb.cpt, errors, panicked, placed)
       ELSE Fine(SetAt(codes2, first_jump_index, JumpNot(IfJumpOffset(b.size, else_bonus))),
                 eb.cpt, 1 + c.size + b.size + else_size, eb.bps \o b.bps, errors, panicked,
                 placed)

if_else(st, c, b) ==
    if_done(st, c, b,
            IF st.haselse THEN generate_block(st.elseblock, Append(b.codes, Goto(0)), b.cpt)
            ELSE Fine(b.codes, b.cpt, 0, <<>>, <<>>, FALSE, {}))

if_block(st, c) ==
    if_else(st, c, generate_block(st.block, Append(c.codes, JumpNot(0)), c.cpt))

generate_if(st, codes, cpt) == if_block(st, generate_expr(st.condition, codes, cpt))

\* codegen.rs 598-621
assign_done(st, l, r) ==
    LET errors == l.errors \o r.errors
        panicked == l.panicked \/ r.panicked
        placed == l.placed \cup r.placed
    IN IF ~l.fine \/ ~r.fine THEN Fail(r.codes, r.cpt, errors, panicked, placed)
       ELSE Fine(Append(r.codes, IF st.left.e = "Variable" THEN Store(st.left.name)
                                 ELSE Op0("Put")),
                 r.cpt, 1 + l.size + r.size, <<>>, errors, panicked, placed)

assign_right(st, l) == assign_done(st, l, generate_expr(st.right, l.codes, l.cpt))

generate_assign(st, codes, cpt) == assign_right(st, generate_lhs(st.left, codes, cpt))

\* codegen.rs 622-662: c, b are the condition and the block
while_done(c, b) ==
    LET first_jump_index == Len(c.codes)
        errors == c.errors \o b.errors
        placed == c.placed \cup b.placed
        closed == SetAt(Append(b.codes, Goto(WhileBackOffset(b.size, c.size))),
                        first_jump_index, JumpNot(WhileExitOffset(b.size)))
        p == PatchBreaks(closed, b.bps, b.size, c.size, first_jump_index)
    IN IF ~c.fine \/ ~b.fine
       THEN Fail(b.codes, b.cpt, errors, c.panicked \/ b.panicked, placed)
       ELSE Fine(p.codes, b.cpt, 2 + b.size + c.size, <<>>, errors,
                 c.panicked \/ b.panicked \/ p.panicked, placed)

while_block(st, c) ==
    while_done(c, generate_block(st.block, Append(c.codes, JumpNot(0)), c.cpt))

generate_while(st, codes, cpt) == while_block(st, generate_expr(st.condition, codes, cpt))

\* codegen.rs 663-674: break and continue emit their placeholder and carry
\* its position up
generate_placeholder(st, placeholder, codes, cpt) ==
    Fine(Append(codes, Goto(placeholder)), CptInsert(cpt, Len(codes), st.start),
         1, <<Len(codes)>>, <<>>, FALSE, {<<Len(codes)>>})

\* codegen.rs 500-508: return after its value
return_done(r) ==
    IF ~r.fine THEN Fail(r.codes, r.cpt, r.errors, r.panicked, r.placed)
    ELSE Fine(Append(r.codes, Op0("Return")), r.cpt, r.size + 1, <<>>,
              r.errors, r.panicked, r.placed)

\* a call statement that leaves the returned value where it is
NoDiscard == <<>>

\* codegen.rs 591: the Pop after the Call of a call statement
Discard == <<Op0("Pop")>>

generate_stmt(st, codes, cpt) ==
    CASE st.s = "Return" -> return_done(generate_expr(st.value, codes, cpt))
      [] st.s = "If" -> generate_if(st, codes, cpt)
      [] st.s = "Call" -> generate_call(st, codes, cpt, Discard)
      [] st.s = "Block" -> generate_block(st.statements, codes, cpt)
      [] st.s = "Assign" -> generate_assign(st, codes, cpt)
      [] st.s = "While" -> generate_while(st, codes, cpt)
      [] st.s = "Break" -> generate_placeholder(st, BreakPlaceholder, codes, cpt)
      [] st.s = "Continue" -> generate_placeholder(st, ContinuePlaceholder, codes, cpt)

\* codegen.rs 691-718: generate_block; every statement is generated, also
\* after one has failed
block_done(r, rest) ==
    LET errors == r.errors \o rest.errors
        panicked == r.panicked \/ rest.panicked
        placed == r.placed \cup rest.placed
    IN IF r.fine /\ rest.fine
       THEN Fine(rest.codes, rest.cpt, r.size + rest.size, r.bps \o rest.bps,
                 errors, panicked, placed)
       ELSE Fail(rest.codes, rest.cpt, errors, panicked, placed)

block_rest(r, rest) == block_done(r, generate_block(rest, r.codes, r.cpt))

generate_block(block, codes, cpt) ==
    IF block = <<>> THEN Fine(codes, cpt, 0, <<>>, <<>>, FALSE, {})
    ELSE block_rest(generate_stmt(Head(block), codes, cpt), Tail(block))

\* codegen.rs 735-742: one BreakOutsideWhile per position carried to the top
BreakErrors(break_positions, cpt) ==
    [i \in 1..Len(break_positions) |->
        CodeError("BreakOutsideWhile", cpt[break_positions[i]])]

\* what generate_codes returns: Fine((codes, code_pos_table), errors) or
\* Fail(errors)
Generated(fine, codes, cpt, errors, panicked, placed) ==
    [fine |-> fine, codes |-> codes, cpt |-> cpt, errors |-> errors,
     panicked |-> panicked, placed |-> placed]

\* a code vector handed out as the block left it
NoEpilogue(codes) == codes

\* codegen.rs 733-734: codes.push(Code::PushNone); codes.push(Code::Return)
Epilogue(codes) == Append(Append(codes, Op0("PushNone")), Op0("Return"))

\* codegen.rs 728-746: generate_codes after the block: r
codes_done(r) ==
    LET codes == Epilogue(r.codes)
        errors == r.errors \o BreakErrors(r.bps, r.cpt)
        asserted == Len(r.codes) # r.size
    IN IF ~r.fine THEN Generated(FALSE, <<>>, EmptyMap, r.errors, r.panicked, {})
       ELSE IF r.bps # <<>>
       THEN Generated(FALSE, <<>>, EmptyMap, errors, r.panicked \/ asserted, {})
       ELSE Generated(TRUE, codes, r.cpt, errors, r.panicked \/ asserted, r.placed)

\* codegen.rs 720-747: generate_codes
generate_codes(tree) == codes_done(generate_block(tree, <<>>, EmptyMap))

(***************************************************************************)
(* interpreter/object.rs: Object and RefObject.                            *)
(* A Pointer holds the address of its heap cell (Garbage::data); the cell  *)
(* holds the RefObject, the reference count all clones of the handle share *)
(* (Garbage::refcount) and whether the memory has been deallocated.        *)
(* Addresses are 1-based positions of the sequence heap.                   *)
(***************************************************************************)
Integer(v) == [t |-> "Integer", value |-> v]
Boolean(b) == [t |-> "Boolean", value |-> b]

\* A Float is written as the fraction num / den in lowest terms with
\* den > 0: Float(7, 2) is 3.5.  The floats of the model and what the
\* operators make of them are fractions an f64 holds exactly, except the
\* quotients of FloatDiv, which no operator of the model reads again.
\* den = 0 writes what a division by zero yields: num 1 is inf, -1 is -inf,
\* 0 is NaN.
Float(num, den) == [t |-> "Float", num |-> num, den |-> den]

\* An Integer beyond the 32 bits the arithmetic of the model holds is
\* written in two halves: WideInteger(high, low) is high * 2^32 + low with
\* 0 <= low < 2^32.  Only the operators that read a shift count take one.
WideInteger(high, low) == [t |-> "Integer", value |-> low, high |-> high]

IsWide(v) == "high" \in DOMAIN v

\* the number an Integer of one half holds
Narrow(v) == CASE ~IsWide(v) /\ "value" \in DOMAIN v -> v.value

\* i64::MAX and i64::MIN, which a cast of an infinite f64 to i64 yields
IntegerMax == [t |-> "Integer", bound |-> "MAX"]
IntegerMin == [t |-> "Integer", bound |-> "MIN"]
None == [t |-> "None"]
Pointer(a) == [t |-> "Pointer", value |-> a]

RFunction(args, codes) == [r |-> "Function", args |-> args, codes |-> codes]
RString(value) == [r |-> "String", value |-> value]
RList(data) == [r |-> "List", data |-> data]
RBendy(data) == [r |-> "Bendy", data |-> data]
RNative(arg_count, closure) == [r |-> "Native", arg_count |-> arg_count, closure |-> closure]

IsPointer(v) == v.t = "Pointer"

\* object.rs 528-540: Garbage::new, a fresh cell with reference count 1
Cell(obj) == [obj |-> obj, refcount |-> 1, freed |-> FALSE]

GarbageNew(h, obj) == Append(h, Cell(obj))

\* the handle Garbage::new has just returned
NewPointer(h) == Pointer(Len(h) + 1)

\* object.rs 568-577: Clone for Garbage
GarbageClone(h, v) ==
    IF IsPointer(v) THEN [h EXCEPT ![v.value].refcount = @ + 1] ELSE h

\* object.rs 543-552: Drop for Garbage.  At count 0 the cell's memory is
\* deallocated as raw bytes: the RefObject in it is not dropped, so the
\* handles it holds keep their counts.
GarbageDrop(h, v) ==
    IF IsPointer(v)
    THEN [h EXCEPT ![v.value].refcount = @ - 1,
                   ![v.value].freed = (h[v.value].refcount - 1 = 0)]
    ELSE h

\* dropping a Vec<Object> or the values of a HashMap<String, Object>
RECURSIVE DropAll(_, _)
DropAll(h, vs) == IF vs = <<>> THEN h ELSE DropAll(GarbageDrop(h, Head(vs)), Tail(vs))

\* the values of a map in some order (the order of dropping them does not
\* matter: no drop reads what another one wrote except the count it lowers)
RECURSIVE MapValues(_)
MapValues(m) ==
    IF DOMAIN m = {} THEN <<>>
    ELSE LET k == CHOOSE n \in DOMAIN m : TRUE
         IN <<m[k]>> \o MapValues([n \in (DOMAIN m) \ {k} |-> m[n]])

\* object.rs 214-222: get_type_name
get_type_name(h, v) ==
    CASE v.t = "Integer" -> "integer"
      [] v.t = "Float" -> "float"
      [] v.t = "None" -> "none"
      [] v.t = "Boolean" -> "boolean"
      [] v.t = "Pointer" ->
           CASE h[v.value].obj.r = "Function" -> "function"
             [] h[v.value].obj.r = "String" -> "string"
             [] h[v.value].obj.r = "List" -> "list"
             [] h[v.value].obj.r = "Bendy" -> "bendy"
             [] h[v.value].obj.r = "Native" -> "native"

\* object.rs 223-240: truthy
truthy(h, v) ==
    CASE v.t = "Integer" -> v.value # 0
      [] v.t = "Boolean" -> v.value
      [] v.t = "Float" -> ~(v.num = 0 /\ v.den # 0)
      [] v.t = "None" -> FALSE
      [] v.t = "Pointer" ->
           LET o == h[v.value].obj
           IN CASE o.r = "String" -> o.value # ""
                [] o.r = "List" -> Len(o.data) > 0
                [] o.r = "Bendy" -> DOMAIN o.data # {}
                [] o.r \in {"Function", "Native"} -> TRUE

(***************************************************************************)
(* interpreter/mod.rs 13-73: Scope.  scopes is the sequence of the live    *)
(* scopes; a scope is named by its 1-based position, parent 0 is None.     *)
(***************************************************************************)
\* mod.rs 19-24: Scope::new
ScopeNew == [variables |-> EmptyMap, parent |-> 0]

\* a callee whose scope hangs below the global scope
GlobalParent(callerScope) == 1

\* the parent a called function's scope gets (mod.rs 98-99: scope.clone())
CalleeParent(callerScope) == callerScope

\* mod.rs 26-31: Scope::from_parent
from_parent(parent) == [variables |-> EmptyMap, parent |-> parent]

\* mod.rs 33-44: Scope::has, which also looks into every ancestor
RECURSIVE has(_, _, _)
has(ss, id, name) ==
    IF name \in DOMAIN ss[id].variables THEN TRUE
    ELSE IF ss[id].parent # 0 THEN has(ss, ss[id].parent, name)
    ELSE FALSE

\* mod.rs 46-56: Scope::load; NotFound stands for Option::None
NotFound == [t |-> "NotFound"]

RECURSIVE load(_, _, _)
load(ss, id, varname) ==
    IF varname \in DOMAIN ss[id].variables THEN ss[id].variables[varname]
    ELSE IF ss[id].parent # 0 THEN load(ss, ss[id].parent, varname)
    ELSE NotFound

\* self.variables.insert(name, val): the scopes afterwards and the value the
\* insert replaced (dropped by the caller of insert), NotFound if none
InsertHere(ss, id, name, val) ==
    [scopes |-> [ss EXCEPT ![id].variables = MapInsert(@, name, val)],
     old |-> IF name \in DOMAIN ss[id].variables THEN ss[id].variables[name] ELSE NotFound]

\* a test that looks into the scope's own map only
StoreHereOwn(ss, id, name) == name \in DOMAIN ss[id].variables

\* the test Scope::store starts with (mod.rs 59)
StoreHere(ss, id, name) == has(ss, id, name)

\* a store that always writes to the outermost scope
store_outermost(ss, id, name, val) == InsertHere(ss, 1, name, val)

\* mod.rs 58-72: Scope::store
RECURSIVE store(_, _, _, _)
store(ss, id, name, val) ==
    IF StoreHere(ss, id, name) THEN InsertHere(ss, id, name, val)
    ELSE IF ss[id].parent # 0
         THEN IF has(ss, ss[id].parent, name) THEN store(ss, ss[id].parent, name, val)
              ELSE InsertHere(ss, id, name, val)
         ELSE InsertHere(ss, id, name, val)

(***************************************************************************)
(* interpreter/object.rs: conversions and operators on Objects.            *)
(***************************************************************************)
RECURSIVE JoinStrings(_, _)
JoinStrings(strs, sep) ==
    IF strs = <<>> THEN ""
    ELSE IF Len(strs) = 1 THEN strs[1]
    ELSE strs[1] \o sep \o JoinStrings(Tail(strs), sep)

\* the keys of a map in some order
RECURSIVE MapKeys(_)
MapKeys(m) ==
    IF DOMAIN m = {} THEN <<>>
    ELSE LET k == CHOOSE n \in DOMAIN m : TRUE
         IN <<k>> \o MapKeys([n \in (DOMAIN m) \ {k} |-> m[n]])

\* the digits of rem / den after the point, at most left of them (the
\* floats of the model have a few)
RECURSIVE FractionDigits(_, _, _)
FractionDigits(rem, den, left) ==
    IF rem = 0 \/ left = 0 THEN ""
    ELSE ToString((rem * 10) \div den) \o FractionDigits((rem * 10) % den, den, left - 1)

\* object.rs 63: format!("{}", value) of an f64
float_to_string(v) ==
    IF v.den = 0
    THEN CASE v.num = 1 -> "inf" [] v.num = -1 -> "-inf" [] OTHER -> "NaN"
    ELSE LET abs == IF v.num < 0 THEN -v.num ELSE v.num
         IN (IF v.num < 0 THEN "-" ELSE "") \o ToString(abs \div v.den)
                \o (IF abs % v.den = 0 THEN ""
                    ELSE "." \o FractionDigits(abs % v.den, v.den, 17))

\* to_string never returns for a value that leads to a list or bendy
\* containing itself: a chain of more pointers than there are cells
RECURSIVE Deep(_, _, _)
Deep(h, v, depth) ==
    IF v.t # "Pointer" THEN FALSE
    ELSE IF depth = 0 THEN TRUE
    ELSE LET o == h[v.value].obj
         IN CASE o.r = "List" -> \E i \in 1..Len(o.data) : Deep(h, o.data[i], depth - 1)
              [] o.r = "Bendy" -> \E k \in DOMAIN o.data : Deep(h, o.data[k], depth - 1)
              [] OTHER -> FALSE

ReachesCycle(h, v) == Deep(h, v, Len(h))

\* A bendy is a HashMap with keys of its own for hashing, which iterates
\* its entries in an order that the keys and the order of the insertions do
\* not determine.  order, a sequence of all keys in use, is the order in
\* which the maps of one call hand out their entries.
HeapKeys(h) ==
    UNION {DOMAIN h[i].obj.data : i \in {j \in 1..Len(h) : h[j].obj.r = "Bendy"}}

Orders(h) ==
    {s \in [1..Cardinality(HeapKeys(h)) -> HeapKeys(h)] :
        \A i, j \in 1..Cardinality(HeapKeys(h)) : i # j => s[i] # s[j]}

\* HashMap::iter
IterKeys(m, order) == SelectSeq(order, LAMBDA k : k \in DOMAIN m)

\* object.rs 58-89: ToString for Object
RECURSIVE to_string(_, _, _)
to_string(h, v, order) ==
    CASE v.t = "Integer" -> ToString(Narrow(v))
      [] v.t = "Float" -> float_to_string(v)
      [] v.t = "Boolean" -> IF v.value THEN "true" ELSE "false"
      [] v.t = "None" -> "none"
      [] v.t = "Pointer" ->
           LET o == h[v.value].obj
           IN CASE o.r = "String" -> o.value
                [] o.r = "List" ->
                     "[" \o JoinStrings([i \in 1..Len(o.data) |->
                                               to_string(h, o.data[i], order)],
                                        ", ") \o "]"
                [] o.r = "Bendy" ->
                     LET keys == IterKeys(o.data, order)
                     IN "{" \o JoinStrings([i \in 1..Len(keys) |->
                                               keys[i] \o ": "
                                                   \o to_string(h, o.data[keys[i]], order)],
                                           ", ") \o "}"
                [] o.r = "Function" -> "function(" \o JoinStrings(o.args, ", ") \o ")"
                [] o.r = "Native" -> "native(" \o o.closure \o ")"

\* the first result that is not "true" decides a comparison of elements
RECURSIVE AllEq(_)
AllEq(results) ==
    IF results = <<>> THEN "true"
    ELSE IF Head(results) # "true" THEN Head(results)
    ELSE AllEq(Tail(results))

\* object.rs 91-161: PartialEq for Object.  Two values of different
\* variants are unequal; two pointers are equal when the RefObjects they
\* point to are: Vec == compares element by element, HashMap == compares
\* the sizes and then looks every entry of the left map up in the right one
\* (here in the order of MapKeys).  seen: the pairs of cells the comparison
\* is in the middle of; "overflow": it has come to one of them again, so it
\* never returns and the stack runs out.
RECURSIVE eq(_, _, _, _)
eq(h, a, b, seen) ==
    IF a.t # b.t THEN "false"
    ELSE IF a.t = "None" THEN "true"
    ELSE IF a.t \in {"Integer", "Boolean"} THEN IF a = b THEN "true" ELSE "false"
    ELSE IF a.t = "Float"
         THEN IF a = b /\ ~(a.num = 0 /\ a.den = 0) THEN "true" ELSE "false"
    ELSE LET x == h[a.value].obj
             y == h[b.value].obj
         IN IF x.r # y.r THEN "false"
            ELSE IF <<a.value, b.value>> \in seen THEN "overflow"
            ELSE CASE x.r = "String" -> IF x.value = y.value THEN "true" ELSE "false"
                   [] x.r = "List" ->
                        IF Len(x.data) # Len(y.data) THEN "false"
                        ELSE AllEq([i \in 1..Len(x.data) |->
                                       eq(h, x.data[i], y.data[i],
                                          seen \cup {<<a.value, b.value>>})])
                   [] x.r = "Bendy" ->
                        IF Cardinality(DOMAIN x.data) # Cardinality(DOMAIN y.data)
                        THEN "false"
                        ELSE AllEq([i \in 1..Len(MapKeys(x.data)) |->
                                       LET k == MapKeys(x.data)[i]
                                       IN IF k \notin DOMAIN y.data THEN "false"
                                          ELSE eq(h, x.data[k], y.data[k],
                                                  seen \cup {<<a.value, b.value>>})])
                   [] x.r = "Function" ->
                        IF x.args = y.args /\ x.codes = y.codes THEN "true" ELSE "false"
                   [] x.r = "Native" ->
                        IF x.arg_count = y.arg_count /\ x.closure = y.closure
                        THEN "true" ELSE "false"

ObjEq(h, a, b) == eq(h, a, b, {}) = "true"

\* what operate returns: Ok with an immediate value, Ok with a RefObject
\* still to be put on the heap (clones: the handles it holds copies of), or
\* Err with the error's data
OkValue(v) == [ok |-> TRUE, alloc |-> FALSE, value |-> v]
OkObject(obj, clones) == [ok |-> TRUE, alloc |-> TRUE, obj |-> obj, clones |-> clones]
Err(data) == [ok |-> FALSE, alloc |-> FALSE, data |-> data]

\* errors.rs: OliveRuntimeError
CallArgs(expected, got) == [kind |-> "CallArgs", expected |-> expected, got |-> got]
IncorrectType(expected, got) == [kind |-> "IncorrectType", expected |-> expected, got |-> got]
VariableNotFound(name) == [kind |-> "VariableNotFound", name |-> name]
UnmatchingTypes(left, right) == [kind |-> "UnmatchingTypes", left |-> left, right |-> right]
IndexOutOfBounds == [kind |-> "IndexOutOfBounds"]

Abs(n) == IF n < 0 THEN -n ELSE n

\* Rust's % and / on integers: the remainder takes the sign of the dividend,
\* the quotient is truncated toward zero
Rem(a, b) == IF a >= 0 THEN a % Abs(b) ELSE -((-a) % Abs(b))
Quot(a, b) == IF (a >= 0) = (b >= 0) THEN Abs(a) \div Abs(b) ELSE -(Abs(a) \div Abs(b))

\* the bits of i64s in two's complement: -1 is all ones, and a \div 2 (which
\* rounds down) shifts the bits right by one
RECURSIVE BitAnd(_, _)
BitAnd(a, b) ==
    IF a = 0 \/ b = 0 THEN 0
    ELSE IF a = -1 THEN b
    ELSE IF b = -1 THEN a
    ELSE (a % 2) * (b % 2) + 2 * BitAnd(a \div 2, b \div 2)

BitNot(a) == -a - 1
BitOr(a, b) == BitNot(BitAnd(BitNot(a), BitNot(b)))
BitXOr(a, b) == BitAnd(BitOr(a, b), BitNot(BitAnd(a, b)))

RECURSIVE Pow2(_)
Pow2(n) == IF n = 0 THEN 1 ELSE 2 * Pow2(n - 1)

\* the bit width of i64
IntegerBits == 64

\* Option<i64>::None of checked_shl / checked_shr
NoShift == [some |-> FALSE]
Shifted(v) == [some |-> TRUE, value |-> v]

\* b as u32 < n (object.rs 299, 300): the cast keeps the low 32 bits of
\* the count, which are b.value for a count of two halves and for a count
\* from 0; a count below 0 has bit 31 of its low half set
CountBelow(b, n) == IF IsWide(b) THEN b.value < n ELSE 0 <= b.value /\ b.value < n

\* i64::checked_shl(b as u32), i64::checked_shr(b as u32); a is shifted
\* within the 32 bits the arithmetic of the model holds
checked_shl(a, b) ==
    IF CountBelow(b, IntegerBits) THEN Shifted(Narrow(a) * Pow2(b.value)) ELSE NoShift

checked_shr(a, b) ==
    IF CountBelow(b, IntegerBits) THEN Shifted(Narrow(a) \div Pow2(b.value)) ELSE NoShift

unwrap_or(option, default) == IF option.some THEN option.value ELSE default

\* object.rs 290-303: operate_int; a and b are Integers
operate_int(a, b, operation) ==
    CASE operation = "Add" -> Narrow(a) + Narrow(b)
      [] operation = "Sub" -> Narrow(a) - Narrow(b)
      [] operation = "Mul" -> Narrow(a) * Narrow(b)
      [] operation = "Mod" -> Rem(Narrow(a), Narrow(b))
      [] operation = "BitAnd" -> BitAnd(Narrow(a), Narrow(b))
      [] operation = "BitOr" -> BitOr(Narrow(a), Narrow(b))
      [] operation = "BitXOr" -> BitXOr(Narrow(a), Narrow(b))
      [] operation = "BitLsh" -> unwrap_or(checked_shl(a, b), 0)
      [] operation = "BitRsh" -> unwrap_or(checked_shr(a, b), 0)

\* object.rs 305-313: compare_int
compare_int(a, b, operation) ==
    CASE operation = "LessEquals" -> a <= b
      [] operation = "GreaterEquals" -> a >= b
      [] operation = "LessThan" -> a < b
      [] operation = "GreaterThan" -> a > b

RECURSIVE Gcd(_, _)
Gcd(a, b) == IF b = 0 THEN a ELSE Gcd(b, a % b)

\* the Float num / den (den # 0) in lowest terms
Fraction(num, den) ==
    LET g == Gcd(Abs(num), Abs(den))
    IN Float((IF den < 0 THEN -num ELSE num) \div g, Abs(den) \div g)

\* value as f64
as_f64(v) == IF v.t = "Integer" THEN Float(Narrow(v), 1) ELSE v

Sign(n) == IF n > 0 THEN 1 ELSE IF n < 0 THEN -1 ELSE 0

\* a / b on f64s
float_div(a, b) ==
    IF b.num = 0 THEN Float(Sign(a.num), 0) ELSE Fraction(a.num * b.den, a.den * b.num)

\* value as i64 of a f64: the fraction is cut off, inf and -inf become the
\* largest and the smallest i64, NaN becomes 0
as_i64(f) ==
    IF f.den # 0 THEN Integer(Quot(f.num, f.den))
    ELSE CASE f.num = 1 -> IntegerMax
           [] f.num = -1 -> IntegerMin
           [] OTHER -> Integer(0)

\* object.rs 315-323: compare_float, on finite floats
compare_float(a, b, operation) ==
    compare_int(a.num * b.den, b.num * a.den, operation)

\* object.rs 325-333: operate_float, on finite floats
operate_float(a, b, operation) ==
    CASE operation = "Add" -> Fraction(a.num * b.den + b.num * a.den, a.den * b.den)
      [] operation = "Sub" -> Fraction(a.num * b.den - b.num * a.den, a.den * b.den)
      [] operation = "Mul" -> Fraction(a.num * b.num, a.den * b.den)
      [] operation = "Mod" ->
           IF b.num = 0 THEN Float(0, 0)
           ELSE Fraction(Rem(a.num * b.den, b.num * a.den), a.den * b.den)

IsRef(h, v, kind) == IsPointer(v) /\ h[v.value].obj.r = kind

IsNumber(v) == v.t \in {"Integer", "Float"}

\* the left map extended by the right one (HashMap::extend)
MapExtend(m, other) ==
    [k \in (DOMAIN m) \cup (DOMAIN other) |-> IF k \in DOMAIN other THEN other[k] ELSE m[k]]

\* object.rs 334-520: operate; order: see to_string
operate(h, a, b, operation, order) ==
    CASE operation \in {"Add", "Sub", "Mod", "Mul"} /\ a.t = "Integer" /\ b.t = "Integer" ->
           OkValue(Integer(operate_int(a, b, operation)))
      [] operation \in {"Add", "Sub", "Mod", "Mul"} /\ IsNumber(a) /\ IsNumber(b)
           /\ "Float" \in {a.t, b.t} ->
           OkValue(operate_float(as_f64(a), as_f64(b), operation))
      [] operation \in {"LessEquals", "LessThan", "GreaterEquals", "GreaterThan"}
           /\ a.t = "Integer" /\ b.t = "Integer" ->
           OkValue(Boolean(compare_int(Narrow(a), Narrow(b), operation)))
      [] operation \in {"LessEquals", "LessThan", "GreaterEquals", "GreaterThan"}
           /\ a.t = "Float" /\ b.t = "Float" ->
           OkValue(Boolean(compare_float(a, b, operation)))
      [] operation \in {"BitAnd", "BitOr", "BitXOr", "BitLsh", "BitRsh"}
           /\ a.t = "Integer" /\ b.t = "Integer" ->
           OkValue(Integer(operate_int(a, b, operation)))
      [] operation = "Concat" /\ IsRef(h, a, "String") ->
           OkObject(RString(h[a.value].obj.value \o to_string(h, b, order)), <<>>)
      [] operation = "Concat" /\ IsRef(h, a, "List") /\ IsRef(h, b, "List") ->
           OkObject(RList(h[a.value].obj.data \o h[b.value].obj.data),
                    h[a.value].obj.data \o h[b.value].obj.data)
      [] operation = "Concat" /\ IsRef(h, a, "Bendy") /\ IsRef(h, b, "Bendy") ->
           OkObject(RBendy(MapExtend(h[a.value].obj.data, h[b.value].obj.data)),
                    MapValues(h[a.value].obj.data) \o MapValues(h[b.value].obj.data))
      [] operation = "FloatDiv" /\ IsNumber(a) /\ IsNumber(b) ->
           OkValue(float_div(as_f64(a), as_f64(b)))
      [] operation = "IntDiv" /\ IsNumber(a) /\ IsNumber(b) ->
           OkValue(as_i64(float_div(as_f64(a), as_f64(b))))
      [] operation = "Equals" -> OkValue(Boolean(ObjEq(h, a, b)))
      [] operation = "NotEquals" -> OkValue(Boolean(~ObjEq(h, a, b)))
      [] OTHER -> Err(UnmatchingTypes(get_type_name(h, a), get_type_name(h, b)))

\* the operations of operate that never return: a comparison or a
\* to_string that runs into a list or bendy containing itself
Overflows(h, a, b, operation) ==
    \/ operation \in {"Equals", "NotEquals"} /\ eq(h, a, b, {}) = "overflow"
    \/ operation = "Concat" /\ IsRef(h, a, "String") /\ ReachesCycle(h, b)

\* cloning every handle of a Vec<Object>
RECURSIVE CloneAll(_, _)
CloneAll(h, vs) ==
    IF vs = <<>> THEN h ELSE CloneAll(GarbageClone(h, Head(vs)), Tail(vs))

\* builtins.rs 5-14: native_print writes one line
native_print(h, args, order) ==
    JoinStrings([i \in 1..Len(args) |-> to_string(h, args[i], order)], ", ")

\* builtins.rs 16-25: native_len
native_len(h, args) ==
    IF IsRef(h, args[1], "Bendy") THEN Integer(Cardinality(DOMAIN h[args[1].value].obj.data))
    ELSE IF IsRef(h, args[1], "List") THEN Integer(Len(h[args[1].value].obj.data))
    ELSE IF IsRef(h, args[1], "String") THEN Integer(Len(h[args[1].value].obj.value))
    ELSE None

(***************************************************************************)
(* The state.                                                              *)
(*   tree, phase, compiled: the AST handed to codegen, whether it has been *)
(*     compiled, and what generate_codes returned for it.                  *)
(*   program: the program the interpreter runs; code_pos_table: the table  *)
(*     generate_codes returned with its codes.                             *)
(*   frames: the activations of run, the innermost last.  A frame holds    *)
(*     the locals of one activation: codes, ip, stack, scope (the position *)
(*     in scopes of its Rc<RefCell<Scope>>) and function, the callee       *)
(*     handle its caller holds until it returns.                           *)
(*   scopes: the live Scopes; heap: the cells Garbage::new has made.       *)
(*   output: the lines written to stdout; status: running, done (start     *)
(*     returned Fine), failed (it returned Fail(errors)), panicked (a      *)
(*     panic!/unwrap/index panic) or aborted (undefined behaviour ended    *)
(*     the process); errors: the errors of a failed run.                   *)
(*   memory, references, allocs, runs, last_root, gc_status: the tracing   *)
(*     collector of garbage.rs, described with its actions.                *)
(*   cells, lhs, rhs, opcode, outcome: one call a.operate(b, .., code) of  *)
(*     object.rs: the cells the pointers among the operands lead to, the   *)
(*     operands a and b, the code, and what became of the call.            *)
(*   unit, source, first: the commands of main.rs one after the other: the *)
(*     bytes of the .olvc file the compile command has written, whether    *)
(*     the interpreter has the source text of what it runs, and what the   *)
(*     run on the source text left behind when the unit was started.       *)
(*   contents, iterator, current, calls, parsed: the lexer and the parser  *)
(*     of parser.rs on a text, described with their actions.               *)
(***************************************************************************)
VARIABLES tree, phase, compiled,
          program, code_pos_table, frames, scopes, heap, output, status, errors,
          memory, references, allocs, runs, last_root, gc_status,
          cells, lhs, rhs, opcode, outcome,
          unit, source, first,
          contents, iterator, current, calls, parsed

cgvars == <<tree, phase, compiled>>
vmvars == <<program, code_pos_table, frames, scopes, heap, output, status, errors>>
gcvars == <<memory, references, allocs, runs, last_root, gc_status>>
opvars == <<cells, lhs, rhs, opcode, outcome>>
unitvars == <<unit, source, first>>
parservars == <<contents, iterator, current, calls, parsed>>
vars == <<tree, phase, compiled,
          program, code_pos_table, frames, scopes, heap, output, status, errors,
          memory, references, allocs, runs, last_root, gc_status,
          cells, lhs, rhs, opcode, outcome,
          unit, source, first,
          contents, iterator, current, calls, parsed>>

NotCompiled == [fine |-> FALSE, codes |-> <<>>, cpt |-> EmptyMap, errors |-> <<>>,
                panicked |-> FALSE, placed |-> {}]

\* no unit written, the source text at hand
NoRun == [status |-> "none", output |-> <<>>]
UnitIdle == unit = <<>> /\ source = TRUE /\ first = NoRun

\* no text given to the lexer
NoToken == [kind |-> "none"]

ParserIdle ==
    /\ contents = <<>>
    /\ iterator = 0
    /\ current = NoToken
    /\ calls = <<>>
    /\ parsed = [state |-> "idle"]

\* the compiler, the interpreter, the collector before they are started
CgIdle == tree = <<>> /\ phase = "idle" /\ compiled = NotCompiled

VmIdle ==
    /\ program = [name |-> "none", n |-> 0, k |-> 0, beneath |-> 0]
    /\ code_pos_table = EmptyMap
    /\ frames = <<>>
    /\ scopes = <<>>
    /\ heap = <<>>
    /\ output = <<>>
    /\ status = "idle"
    /\ errors = <<>>

GcIdle ==
    /\ memory = <<>>
    /\ references = {}
    /\ allocs = 0
    /\ runs = 0
    /\ last_root = {}
    /\ gc_status = "idle"

OpIdle ==
    /\ cells = <<>>
    /\ lhs = None
    /\ rhs = None
    /\ opcode = "none"
    /\ outcome = [state |-> "idle"]

(***************************************************************************)
(* Compiling: the parser hands codegen a tree (main_compiler.rs), built    *)
(* here statement by statement; Compile is generate_codes on it.           *)
(***************************************************************************)
RECURSIVE StmtCount(_)
StmtCount(block) ==
    IF block = <<>> THEN 0
    ELSE LET st == Head(block)
             inner == CASE st.s \in {"While", "If"} ->
                             StmtCount(st.block) + StmtCount(st.elseblock)
                        [] st.s = "Assign" /\ st.right.e = "Function" ->
                             StmtCount(st.right.block)
                        [] OTHER -> 0
         IN 1 + inner + StmtCount(Tail(block))

\* the conditions of the loops and ifs built
Conditions ==
    {EVariable("c", 3),
     EBinary(EVariable("a", 4), "BoolAnd", EVariable("b", 5), 4),
     EBinary(EVariable("a", 6), "BoolOr", EVariable("b", 7), 6)}

\* the statements without sub-statements built
Leaves ==
    {SBreak(1), SContinue(2), SAssign(EVariable("x", 8), EInteger(1))}

Suffix(s, k) == SubSeq(s, Len(s) - k + 1, Len(s))
Prefix(s, k) == SubSeq(s, 1, Len(s) - k)

CgInit ==
    /\ tree = <<>>
    /\ phase = "edit"
    /\ compiled = NotCompiled
    /\ VmIdle
    /\ GcIdle
    /\ OpIdle
    /\ UnitIdle
    /\ ParserIdle

Grow(t) ==
    /\ phase = "edit"
    /\ StmtCount(t) <= MaxStmts
    /\ tree' = t
    /\ UNCHANGED <<phase, compiled, vmvars, gcvars, opvars, unitvars, parservars>>

AppendLeaf == \E st \in Leaves : Grow(Append(tree, st))

\* the last k statements become the body of a while loop
WrapWhile ==
    \E k \in 0..Len(tree), c \in Conditions :
        Grow(Append(Prefix(tree, k), SWhile(c, Suffix(tree, k)) @@ [elseblock |-> <<>>]))

\* the last k statements become the block of an if without else
WrapIf ==
    \E k \in 0..Len(tree), c \in Conditions :
        Grow(Append(Prefix(tree, k), SIf(c, Suffix(tree, k))))

\* the last k + j statements become the block and the else block of an if
WrapIfElse ==
    \E k \in 0..Len(tree), j \in 0..Len(tree), c \in Conditions :
        /\ k + j <= Len(tree)
        /\ Grow(Append(Prefix(tree, k + j),
                       SIfElse(c, Suffix(Prefix(tree, j), k), Suffix(tree, j))))

\* the last k statements become the body of a function literal assigned to f
WrapFunction ==
    \E k \in 0..Len(tree) :
        Grow(Append(Prefix(tree, k),
                    SAssign(EVariable("f", 9), EFunction(<<>>, Suffix(tree, k)))))

Compile ==
    /\ phase = "edit"
    /\ phase' = "compiled"
    /\ compiled' = generate_codes(tree)
    /\ UNCHANGED <<tree, vmvars, gcvars, opvars, unitvars, parservars>>

CgNext ==
    \/ AppendLeaf
    \/ WrapWhile
    \/ WrapIf
    \/ WrapIfElse
    \/ WrapFunction
    \/ Compile

CodegenSpec == CgInit /\ [][CgNext]_vars

(***************************************************************************)
(* The programs the interpreter is run on.                                 *)
(***************************************************************************)
Var(name, st) == EVariable(name, st)
PrintStmt(x, st) == SCall(Var("print", st), <<x>>, st)

\* x = 0; f = fun() { x = 1; }; f(); print(x);
StoreOuterProgram ==
    << SAssign(Var("x", 0), EInteger(0)),
       SAssign(Var("f", 7), EFunction(<<>>, <<SAssign(Var("x", 19), EInteger(1))>>)),
       SCall(Var("f", 29), <<>>, 29),
       PrintStmt(Var("x", 40), 34) >>

\* mk = fun() { c = 0; return fun() { c = c + 1; return c; }; };
\* f = mk(); print(f()); print(f()); print(f());
ClosureProgram ==
    << SAssign(Var("mk", 0),
               EFunction(<<>>,
                   << SAssign(Var("c", 12), EInteger(0)),
                      SReturn(EFunction(<<>>,
                          << SAssign(Var("c", 33),
                                     EBinary(Var("c", 37), "Add", EInteger(1), 39)),
                             SReturn(Var("c", 51)) >>)) >>)),
       SAssign(Var("f", 60), ECall(Var("mk", 64), <<>>, 64)),
       PrintStmt(ECall(Var("f", 76), <<>>, 76), 70),
       PrintStmt(ECall(Var("f", 88), <<>>, 88), 82),
       PrintStmt(ECall(Var("f", 100), <<>>, 100), 94) >>

\* g = fun() { return z; }; h = fun(z) { return g(); }; print(h(5));
DynamicProgram ==
    << SAssign(Var("g", 0), EFunction(<<>>, <<SReturn(Var("z", 17))>>)),
       SAssign(Var("h", 23), EFunction(<<"z">>, <<SReturn(ECall(Var("g", 43), <<>>, 43))>>)),
       PrintStmt(ECall(Var("h", 57), <<EInteger(5)>>, 57), 51) >>

\* x = 1; x();
CallIntegerProgram ==
    << SAssign(Var("x", 0), EInteger(1)), SCall(Var("x", 7), <<>>, 7) >>

\* a = new {}; b = new {}; a.b = b; b.a = a; a = none; b = none;
CycleProgram ==
    << SAssign(Var("a", 0), EBendy(<<>>)),
       SAssign(Var("b", 12), EBendy(<<>>)),
       SAssign(EBinary(Var("a", 24), "Access", Var("b", 26), 25), Var("b", 30)),
       SAssign(EBinary(Var("b", 33), "Access", Var("a", 35), 34), Var("a", 39)),
       SAssign(Var("a", 42), ENone),
       SAssign(Var("b", 52), ENone) >>

\* xs = new []; xs[0] = xs; xs = none;
SelfListProgram ==
    << SAssign(Var("xs", 0), EList(<<>>)),
       SAssign(EIndex(Var("xs", 13), EInteger(0), 15), Var("xs", 21)),
       SAssign(Var("xs", 25), ENone) >>

\* i = 0; xs = new [4, "s"]; while (i < 1 or false) { i = i + 1; }
\* print(-xs[0]); print(!i); print(len(xs)); print(xs[1] .. i == 1);
MixedProgram ==
    << SAssign(Var("i", 0), EInteger(0)),
       SAssign(Var("xs", 7), EList(<<EInteger(4), EString("s")>>)),
       SWhile(EBinary(EBinary(Var("i", 31), "LessThan", EInteger(1), 33), "BoolOr",
                      EBoolean(FALSE), 37),
              <<SAssign(Var("i", 48), EBinary(Var("i", 52), "Add", EInteger(1), 54))>>),
       PrintStmt(EUnary("Neg", EIndex(Var("xs", 68), EInteger(0), 70), 67), 61),
       PrintStmt(EUnary("BoolNot", Var("i", 83), 82), 76),
       PrintStmt(ECall(Var("len", 93), <<Var("xs", 97)>>, 93), 87),
       PrintStmt(EBinary(EBinary(EIndex(Var("xs", 109), EInteger(1), 111), "Concat",
                                 Var("i", 118), 115),
                         "Equals", EInteger(1), 120), 103) >>

\* f = fun(a, b) { return a; }; y = 7 + f(1);
OperandProgram ==
    << SAssign(Var("f", 0), EFunction(<<"a", "b">>, <<SReturn(Var("a", 25))>>)),
       SAssign(Var("y", 31), EBinary(EInteger(7), "Add",
                                     ECall(Var("f", 39), <<EInteger(1)>>, 39), 37)) >>

\* the name of the i-th parameter and the value of the i-th argument in the
\* programs CallProgram; Arg(0) is the value beneath the arguments
Param(i) == "p" \o ToString(i)
Arg(i) == 10 + i

\* f = fun(p1, .., pn) { return new [p1, .., pn]; }; print(f(11, .., 10 + k));
\* with beneath = 1: ...; print(10, f(11, .., 10 + k));
CallProgram(n, k, beneath) ==
    << SAssign(Var("f", 0),
               EFunction([i \in 1..n |-> Param(i)],
                         <<SReturn(EList([i \in 1..n |-> Var(Param(i), 30 + i)]))>>)),
       SCall(Var("print", 50),
             [i \in 1..beneath |-> EInteger(Arg(0))]
                 \o <<ECall(Var("f", 60), [i \in 1..k |-> EInteger(Arg(i))], 60)>>,
             50) >>

\* xs = new []; xs[0] = xs; print(xs == xs);
SelfEqualProgram ==
    << SAssign(Var("xs", 0), EList(<<>>)),
       SAssign(EIndex(Var("xs", 13), EInteger(0), 15), Var("xs", 21)),
       PrintStmt(EBinary(Var("xs", 31), "Equals", Var("xs", 37), 34), 25) >>

\* x = new {}; x.a = 1; x.b = 2; y = new {}; y.b = 2; y.a = 1;
\* print(x); print(y); print(x == y);
BendyOrderProgram ==
    << SAssign(Var("x", 0), EBendy(<<>>)),
       SAssign(EBinary(Var("x", 12), "Access", Var("a", 14), 13), EInteger(1)),
       SAssign(EBinary(Var("x", 21), "Access", Var("b", 23), 22), EInteger(2)),
       SAssign(Var("y", 30), EBendy(<<>>)),
       SAssign(EBinary(Var("y", 42), "Access", Var("b", 44), 43), EInteger(2)),
       SAssign(EBinary(Var("y", 51), "Access", Var("a", 53), 52), EInteger(1)),
       PrintStmt(Var("x", 66), 60),
       PrintStmt(Var("y", 76), 70),
       PrintStmt(EBinary(Var("x", 86), "Equals", Var("y", 91), 88), 80) >>

\* the index i as the parser hands it over: -i is the negation of a literal
IndexLiteral(i, st) == IF i < 0 THEN EUnary("Neg", EInteger(-i), st) ELSE EInteger(i)

\* the elements of the list and the characters of the string the put and
\* get programs start from
Elements == <<4, 5>>
Characters == "ab"

\* xs = new [4, 5]; xs[i] = 9; print(xs);
PutProgram(i) ==
    << SAssign(Var("xs", 0), EList([j \in 1..Len(Elements) |-> EInteger(Elements[j])])),
       SAssign(EIndex(Var("xs", 17), IndexLiteral(i, 20), 19), EInteger(9)),
       PrintStmt(Var("xs", 35), 29) >>

\* xs = new [4, 5]; print(xs[i]);
GetProgram(i) ==
    << SAssign(Var("xs", 0), EList([j \in 1..Len(Elements) |-> EInteger(Elements[j])])),
       PrintStmt(EIndex(Var("xs", 23), IndexLiteral(i, 26), 25), 17) >>

\* s = "ab"; print(s[i]);
GetStringProgram(i) ==
    << SAssign(Var("s", 0), EString(Characters)),
       PrintStmt(EIndex(Var("s", 16), IndexLiteral(i, 18), 17), 10) >>

\* the targets that are no list and no bendy, as the programs write them:
\* 1, 0.5, true, none, fun() {}, print and "ab"
Scalars ==
    << EInteger(1), EFloat(1, 2), EBoolean(TRUE), ENone, EFunction(<<>>, <<>>),
       Var("print", 4), EString(Characters) >>

\* x = <target>; print(x[0]);
GetScalarProgram(n) ==
    << SAssign(Var("x", 0), Scalars[n]),
       PrintStmt(EIndex(Var("x", 20), EInteger(0), 21), 14) >>

\* x = <target>; x[0] = 2;
PutScalarProgram(n) ==
    << SAssign(Var("x", 0), Scalars[n]),
       SAssign(EIndex(Var("x", 14), EInteger(0), 15), EInteger(2)) >>

\* the operators whose result depends on the order of the operands
NonCommutative ==
    << "Sub", "IntDiv", "FloatDiv", "Mod", "BitLsh", "BitRsh", "Concat",
       "LessThan", "LessEquals", "GreaterThan", "GreaterEquals" >>

\* print(5 OP 2);  and for Concat  print("ab" $ "cd");
BinaryProgram(n) ==
    << PrintStmt(IF NonCommutative[n] = "Concat"
                 THEN EBinary(EString("ab"), "Concat", EString("cd"), 11)
                 ELSE EBinary(EInteger(5), NonCommutative[n], EInteger(2), 8), 0) >>

\* f = fun() { x = 1; }; print(f());
ImplicitReturnProgram ==
    << SAssign(Var("f", 0), EFunction(<<>>, <<SAssign(Var("x", 12), EInteger(1))>>)),
       PrintStmt(ECall(Var("f", 28), <<>>, 28), 22) >>

\* i = 0; f = fun(p) { if (p > 1 and i) { return new [p, i]; } b = new {k: p}; };
\* while (i < 2) { i = i + 1; f(i); if (i == 1) { continue; } else { print(i); } break; }
StackProgram ==
    << SAssign(Var("i", 0), EInteger(0)),
       SAssign(Var("f", 7),
               EFunction(<<"p">>,
                   << SIf(EBinary(EBinary(Var("p", 24), "GreaterThan", EInteger(1), 26),
                                  "BoolAnd", Var("i", 34), 30),
                          <<SReturn(EList(<<Var("p", 51), Var("i", 54)>>))>>),
                      SAssign(Var("b", 60), EBendy(<< <<"k", Var("p", 72)>> >>)) >>)),
       SWhile(EBinary(Var("i", 86), "LessThan", EInteger(2), 88),
              << SAssign(Var("i", 95), EBinary(Var("i", 99), "Add", EInteger(1), 101)),
                 SCall(Var("f", 106), <<Var("i", 108)>>, 106),
                 SIfElse(EBinary(Var("i", 116), "Equals", EInteger(1), 118),
                         <<SContinue(126)>>,
                         <<PrintStmt(Var("i", 151), 145)>>),
                 SBreak(157) >>) >>

\* the operands of the programs with `and` and `or`: 1, 5, 0, true, none, "ab"
LogicOperands ==
    << EInteger(1), EInteger(5), EInteger(0), EBoolean(TRUE), ENone, EString(Characters) >>

\* l and r, l or r
LogicExpr(operator, l, r) == EBinary(LogicOperands[l], operator, LogicOperands[r], 8)

\* print(l and r);  print(l or r);
LogicProgram(operator, l, r) == << PrintStmt(LogicExpr(operator, l, r), 0) >>

\* the right operand of the circuit programs: t(0), t(1), or the variable u
\* that nothing defines
CircuitRight(k) ==
    IF k = 2 THEN Var("u", 51) ELSE ECall(Var("t", 51), <<EInteger(k)>>, 51)

\* t(n) and <right>, t(n) or <right>
CircuitExpr(operator, n, k) ==
    EBinary(ECall(Var("t", 42), <<EInteger(n)>>, 42), operator, CircuitRight(k), 47)

\* t = fun(v) { print(v); return v; }; print(t(n) and t(k));
\* likewise with or, and with u in the place of t(k)
CircuitProgram(operator, n, k) ==
    << SAssign(Var("t", 0),
               EFunction(<<"v">>, <<PrintStmt(Var("v", 19), 13), SReturn(Var("v", 30))>>)),
       PrintStmt(CircuitExpr(operator, n, k), 36) >>

\* f = fun() { x = 1; return u; }; f();
PositionProgram ==
    << SAssign(Var("f", 0),
               EFunction(<<>>, << SAssign(Var("x", 12), EInteger(1)),
                                  SReturn(Var("u", 26)) >>)),
       SCall(Var("f", 32), <<>>, 32) >>

\* xs = new []; xs["a"] = 1;
PutKeyProgram ==
    << SAssign(Var("xs", 0), EList(<<>>)),
       SAssign(EIndex(Var("xs", 13), EString("a"), 15), EInteger(1)) >>

\* x = 1; g = fun(x) { return x; }; f = fun(x) { return g(x + 1); };
\* print(f(5)); print(x);
ShadowProgram ==
    << SAssign(Var("x", 0), EInteger(1)),
       SAssign(Var("g", 7), EFunction(<<"x">>, <<SReturn(Var("x", 27))>>)),
       SAssign(Var("f", 33),
               EFunction(<<"x">>,
                   <<SReturn(ECall(Var("g", 53),
                                   <<EBinary(Var("x", 55), "Add", EInteger(1), 57)>>, 53))>>)),
       PrintStmt(ECall(Var("f", 72), <<EInteger(5)>>, 72), 66),
       PrintStmt(Var("x", 85), 79) >>

\* the indices of the put and get programs: below 0, inside and past the end
Indices == (-2)..MaxIndex

Named(name) == [name |-> name, n |-> 0, k |-> 0, beneath |-> 0]

Programs ==
    {Named(name) : name \in {"store_outer", "closure", "dynamic", "call_integer", "cycle",
                             "self_list", "mixed", "operand", "self_equal",
                             "bendy_order", "implicit_return", "stack",
                             "position", "put_key", "shadow"}}
    \cup {[name |-> name, n |-> i, k |-> 0, beneath |-> 0] :
            name \in {"put", "get", "get_string"}, i \in Indices}
    \cup {[name |-> name, n |-> n, k |-> 0, beneath |-> 0] :
            name \in {"get_scalar", "put_scalar"}, n \in 1..Len(Scalars)}
    \cup {[name |-> "binary", n |-> n, k |-> 0, beneath |-> 0] :
            n \in 1..Len(NonCommutative)}
    \cup {[name |-> name, n |-> l, k |-> r, beneath |-> 0] :
            name \in {"BoolAnd", "BoolOr"},
            l \in 1..Len(LogicOperands), r \in 1..Len(LogicOperands)}
    \cup {[name |-> name, n |-> n, k |-> k, beneath |-> 0] :
            name \in {"circuit_and", "circuit_or"}, n \in 0..1, k \in 0..2}
    \cup {[name |-> "call", n |-> n, k |-> k, beneath |-> b] :
            n \in 0..MaxParams, k \in 0..MaxParams, b \in 0..1}

ProgramTree(p) ==
    CASE p.name = "store_outer" -> StoreOuterProgram
      [] p.name = "closure" -> ClosureProgram
      [] p.name = "dynamic" -> DynamicProgram
      [] p.name = "call_integer" -> CallIntegerProgram
      [] p.name = "cycle" -> CycleProgram
      [] p.name = "self_list" -> SelfListProgram
      [] p.name = "mixed" -> MixedProgram
      [] p.name = "operand" -> OperandProgram
      [] p.name = "self_equal" -> SelfEqualProgram
      [] p.name = "bendy_order" -> BendyOrderProgram
      [] p.name = "put" -> PutProgram(p.n)
      [] p.name = "get" -> GetProgram(p.n)
      [] p.name = "get_string" -> GetStringProgram(p.n)
      [] p.name = "get_scalar" -> GetScalarProgram(p.n)
      [] p.name = "put_scalar" -> PutScalarProgram(p.n)
      [] p.name = "binary" -> BinaryProgram(p.n)
      [] p.name = "implicit_return" -> ImplicitReturnProgram
      [] p.name = "stack" -> StackProgram
      [] p.name = "position" -> PositionProgram
      [] p.name = "put_key" -> PutKeyProgram
      [] p.name = "shadow" -> ShadowProgram
      [] p.name \in {"BoolAnd", "BoolOr"} -> LogicProgram(p.name, p.n, p.k)
      [] p.name = "circuit_and" -> CircuitProgram("BoolAnd", p.n, p.k)
      [] p.name = "circuit_or" -> CircuitProgram("BoolOr", p.n, p.k)
      [] p.name = "call" -> CallProgram(p.n, p.k, p.beneath)

(***************************************************************************)
(* main.rs: the compiled unit.  bincode::serialize writes the Vec<Code> as *)
(* bytes: a length as u64, an enum variant as the u32 of its place in the  *)
(* declaration, integers in their own width, all little-endian and in      *)
(* two's complement, an f64 as its 8 IEEE 754 bytes, a bool as one byte, a *)
(* String as its length and its UTF-8 bytes.  bincode::deserialize reads   *)
(* them back.                                                              *)
(***************************************************************************)
\* codegen.rs 8-51: the variants of Code in the order of their declaration
Variants ==
    << "PushString", "PushBoolean", "PushDouble", "PushLong", "PushInt", "PushShort",
       "PushByte", "PushBendy", "PushList", "PushNone", "Pop", "Return", "Neg", "Add",
       "Sub", "Mul", "IntDiv", "FloatDiv", "Mod", "BitLsh", "BitRsh", "BitAnd", "BitOr",
       "BitXOr", "BoolNot", "Concat", "Put", "Get", "Call", "Equals", "NotEquals",
       "LessThan", "LessEquals", "GreaterThan", "GreaterEquals", "Dup", "JumpNot", "Jump",
       "Goto", "Store", "Load", "PushFun" >>

VariantIndex(op) == (CHOOSE i \in 1..Len(Variants) : Variants[i] = op) - 1

\* the characters from the space to the tilde, in the order of their codes
\* (a tab holds the place of the backquote, which no string here contains)
Printable ==
    " !\"#$%&'()*+,-./0123456789:;<=>?@ABCDEFGHIJKLMNOPQRSTUVWXYZ[\\]^_\tabcdefghijklmnopqrstuvwxyz{|}~"

\* the UTF-8 byte of a character and the character of a byte (the first
\* of Printable is U+0020)
Bytes ==
    [c \in {SubSeq(Printable, i, i) : i \in 1..Len(Printable)} |->
        (CHOOSE i \in 1..Len(Printable) : SubSeq(Printable, i, i) = c) + 31]
ByteOf(c) == Bytes[c]
CharOf(b) == SubSeq(Printable, b - 31, b - 31)

\* String::as_bytes and String::from_utf8
RECURSIVE as_bytes(_)
as_bytes(str) ==
    IF Len(str) = 0 THEN <<>>
    ELSE <<ByteOf(SubSeq(str, 1, 1))>> \o as_bytes(SubSeq(str, 2, Len(str)))

RECURSIVE from_utf8(_)
from_utf8(bytes) == IF bytes = <<>> THEN "" ELSE CharOf(Head(bytes)) \o from_utf8(Tail(bytes))

\* the width low bytes of n >= 0, lowest first
RECURSIVE LowBytes(_, _)
LowBytes(n, width) ==
    IF width = 0 THEN <<>> ELSE <<n % 256>> \o LowBytes(n \div 256, width - 1)

\* n in two's complement of width bytes, little-endian: the bytes of a
\* negative n are the complements of the bytes of -n - 1
to_le_bytes(n, width) ==
    IF n >= 0 THEN LowBytes(n, width)
    ELSE [i \in 1..width |-> 255 - LowBytes(-n - 1, width)[i]]

\* the number >= 0 that bytes hold, lowest first
RECURSIVE Unsigned(_)
Unsigned(bytes) == IF bytes = <<>> THEN 0 ELSE Head(bytes) + 256 * Unsigned(Tail(bytes))

from_le_bytes(bytes) ==
    IF bytes[Len(bytes)] < 128 THEN Unsigned(bytes)
    ELSE -Unsigned([i \in 1..Len(bytes) |-> 255 - bytes[i]]) - 1

\* the width bits of n >= 0, highest first, and the number that bits hold
RECURSIVE BitsOf(_, _)
BitsOf(n, width) ==
    IF width = 0 THEN <<>> ELSE Append(BitsOf(n \div 2, width - 1), n % 2)

RECURSIVE FromBits(_)
FromBits(bits) ==
    IF bits = <<>> THEN 0 ELSE 2 * FromBits(SubSeq(bits, 1, Len(bits) - 1)) + bits[Len(bits)]

\* e with 2^e <= n / d < 2^(e + 1), for n, d > 0
RECURSIVE Exponent(_, _)
Exponent(n, d) ==
    IF n >= 2 * d THEN Exponent(n, 2 * d) + 1
    ELSE IF n < d THEN Exponent(2 * n, d) - 1
    ELSE 0

\* the first count binary digits of r / d < 1
RECURSIVE BinaryDigits(_, _, _)
BinaryDigits(r, d, count) ==
    IF r = 0 THEN [i \in 1..count |-> 0]
    ELSE IF 2 * r >= d THEN <<1>> \o BinaryDigits(2 * r - d, d, count - 1)
    ELSE <<0>> \o BinaryDigits(2 * r, d, count - 1)

\* the 64 bits of an f64, highest first: the sign, 11 bits of the exponent
\* plus 1023 and the 52 digits that follow the leading 1.  The floats of
\* the model are fractions that an f64 holds exactly.
f64_bits(v) ==
    IF v.den = 0
    THEN <<IF v.num < 0 THEN 1 ELSE 0>> \o BitsOf(2047, 11)
             \o <<IF v.num = 0 THEN 1 ELSE 0>> \o [i \in 1..51 |-> 0]
    ELSE IF v.num = 0 THEN [i \in 1..64 |-> 0]
    ELSE LET e == Exponent(Abs(v.num), v.den)
             n == IF e < 0 THEN Abs(v.num) * Pow2(-e) ELSE Abs(v.num)
             d == IF e < 0 THEN v.den ELSE v.den * Pow2(e)
         IN <<IF v.num < 0 THEN 1 ELSE 0>> \o BitsOf(e + 1023, 11)
                \o BinaryDigits(n - d, d, 52)

\* the place of the last 1 among bits, 0 when there is none
RECURSIVE LastOne(_)
LastOne(bits) ==
    IF bits = <<>> THEN 0
    ELSE IF bits[Len(bits)] = 1 THEN Len(bits)
    ELSE LastOne(SubSeq(bits, 1, Len(bits) - 1))

\* the f64 that 64 bits hold
f64_from_bits(bits) ==
    LET sign == IF bits[1] = 1 THEN -1 ELSE 1
        biased == FromBits(SubSeq(bits, 2, 12))
        digits == SubSeq(bits, 13, 12 + LastOne(SubSeq(bits, 13, 64)))
        mantissa == Pow2(Len(digits)) + FromBits(digits)
        e == biased - 1023 - Len(digits)
    IN IF biased = 2047 THEN Float(IF digits = <<>> THEN sign ELSE 0, 0)
       ELSE IF biased = 0 THEN Float(0, 1)
       ELSE IF e >= 0 THEN Float(sign * mantissa * Pow2(e), 1)
       ELSE Fraction(sign * mantissa, Pow2(-e))

\* f64::to_le_bytes and f64::from_le_bytes
f64_to_le_bytes(v) ==
    [i \in 1..8 |-> FromBits(SubSeq(f64_bits(v), 8 * (8 - i) + 1, 8 * (8 - i) + 8))]

RECURSIVE BitsOfBytes(_)
BitsOfBytes(bytes) ==
    IF bytes = <<>> THEN <<>> ELSE BitsOfBytes(Tail(bytes)) \o BitsOf(Head(bytes), 8)

f64_from_le_bytes(bytes) == f64_from_bits(BitsOfBytes(bytes))

\* the width of the integer operand of an operation
OperandWidth(op) ==
    CASE op = "PushLong" -> 8
      [] op \in {"PushInt", "JumpNot", "Jump", "Goto"} -> 4
      [] op = "PushShort" -> 2
      [] op = "PushByte" -> 1

\* Serialize for String and Vec<String>: the length as u64, then the items
serialize_string(str) == to_le_bytes(Len(str), 8) \o as_bytes(str)

RECURSIVE serialize_strings_from(_)
serialize_strings_from(strs) ==
    IF strs = <<>> THEN <<>>
    ELSE serialize_string(Head(strs)) \o serialize_strings_from(Tail(strs))

serialize_strings(strs) == to_le_bytes(Len(strs), 8) \o serialize_strings_from(strs)

\* codegen.rs 7-51: #[derive(Serialize)] for Code: the variant as u32, then
\* its fields in their order
RECURSIVE serialize_code(_), serialize_codes_from(_)
serialize_code(c) ==
    to_le_bytes(VariantIndex(c.op), 4) \o
    CASE c.op = "PushString" -> serialize_string(c.s)
      [] c.op = "PushBoolean" -> <<IF c.b THEN 1 ELSE 0>>
      [] c.op = "PushDouble" -> f64_to_le_bytes(Float(c.num, c.den))
      [] c.op \in {"PushLong", "PushInt", "PushShort", "PushByte"} ->
             to_le_bytes(c.n, OperandWidth(c.op))
      [] c.op \in {"JumpNot", "Jump", "Goto"} -> to_le_bytes(c.off, OperandWidth(c.op))
      [] c.op \in {"Store", "Load"} -> serialize_string(c.name)
      [] c.op = "PushFun" ->
             serialize_strings(c.args) \o to_le_bytes(Len(c.codes), 8)
                 \o serialize_codes_from(c.codes)
      [] OTHER -> <<>>

\* the items one after the other (first half, then second half)
serialize_codes_from(codes) ==
    IF codes = <<>> THEN <<>>
    ELSE IF Len(codes) = 1 THEN serialize_code(codes[1])
    ELSE serialize_codes_from(SubSeq(codes, 1, Len(codes) \div 2)) \o
         serialize_codes_from(SubSeq(codes, Len(codes) \div 2 + 1, Len(codes)))

\* main.rs 166: bincode::serialize(&codes)
serialize(codes) == to_le_bytes(Len(codes), 8) \o serialize_codes_from(codes)

\* what a read returns: the value and the place of the next byte, or an
\* error
Read(value, at) == [ok |-> TRUE, value |-> value, at |-> at]
Malformed == [ok |-> FALSE]

\* the next width bytes as a number without and with a sign
read_unsigned(bytes, at, width) ==
    IF at + width - 1 > Len(bytes) THEN Malformed
    ELSE Read(Unsigned(SubSeq(bytes, at, at + width - 1)), at + width)

read_signed(bytes, at, width) ==
    IF at + width - 1 > Len(bytes) THEN Malformed
    ELSE Read(from_le_bytes(SubSeq(bytes, at, at + width - 1)), at + width)

\* Deserialize for String: the length, then as many bytes
string_of(bytes, len) ==
    IF ~len.ok THEN Malformed
    ELSE IF len.at + len.value - 1 > Len(bytes) THEN Malformed
    ELSE Read(from_utf8(SubSeq(bytes, len.at, len.at + len.value - 1)), len.at + len.value)

deserialize_string(bytes, at) == string_of(bytes, read_unsigned(bytes, at, 8))

\* Deserialize for Vec<String>
RECURSIVE strings_from(_, _, _, _)
strings_next(bytes, left, acc, r) ==
    IF ~r.ok THEN Malformed ELSE strings_from(bytes, r.at, left - 1, Append(acc, r.value))

strings_from(bytes, at, left, acc) ==
    IF left = 0 THEN Read(acc, at)
    ELSE strings_next(bytes, left, acc, deserialize_string(bytes, at))

strings_of(bytes, len) ==
    IF ~len.ok THEN Malformed ELSE strings_from(bytes, len.at, len.value, <<>>)

deserialize_strings(bytes, at) == strings_of(bytes, read_unsigned(bytes, at, 8))

\* the operation that an operand read completes
WithOperand(r, op) ==
    IF ~r.ok THEN Malformed
    ELSE Read(CASE op = "PushString" -> PushString(r.value)
                [] op = "PushBoolean" -> PushBoolean(r.value = 1)
                [] op = "PushDouble" -> PushDouble(r.value.num, r.value.den)
                [] op = "Store" -> Store(r.value)
                [] op = "Load" -> Load(r.value)
                [] op \in {"JumpNot", "Jump", "Goto"} -> [op |-> op, off |-> r.value]
                [] OTHER -> [op |-> op, n |-> r.value],
              r.at)

read_f64(bytes, at) ==
    IF at + 7 > Len(bytes) THEN Malformed
    ELSE Read(f64_from_le_bytes(SubSeq(bytes, at, at + 7)), at + 8)

read_bool(bytes, at) ==
    IF at > Len(bytes) \/ bytes[at] > 1 THEN Malformed ELSE Read(bytes[at], at + 1)

\* codegen.rs 7-51: #[derive(Deserialize)] for Code and Vec<Code>
RECURSIVE deserialize_code(_, _), codes_from(_, _, _)
fun_done(args, r) ==
    IF ~r.ok THEN Malformed ELSE Read(PushFun(args, r.value), r.at)

codes_of(bytes, len) ==
    IF ~len.ok THEN Malformed ELSE codes_from(bytes, len.at, len.value)

fun_codes(bytes, args) ==
    IF ~args.ok THEN Malformed
    ELSE fun_done(args.value, codes_of(bytes, read_unsigned(bytes, args.at, 8)))

code_of(bytes, variant) ==
    IF ~variant.ok THEN Malformed
    ELSE IF variant.value >= Len(Variants) THEN Malformed
    ELSE LET op == Variants[variant.value + 1]
             at == variant.at
         IN CASE op \in {"PushString", "Store", "Load"} ->
                   WithOperand(deserialize_string(bytes, at), op)
              [] op = "PushBoolean" -> WithOperand(read_bool(bytes, at), op)
              [] op = "PushDouble" -> WithOperand(read_f64(bytes, at), op)
              [] op \in {"PushLong", "PushInt", "PushShort", "PushByte", "JumpNot", "Jump",
                         "Goto"} ->
                   WithOperand(read_signed(bytes, at, OperandWidth(op)), op)
              [] op = "PushFun" -> fun_codes(bytes, deserialize_strings(bytes, at))
              [] OTHER -> Read(Op0(op), at)

deserialize_code(bytes, at) == code_of(bytes, read_unsigned(bytes, at, 4))

\* the items one after the other (first half, then second half), each read
\* where the one before it ended
codes_joined(head, r) ==
    IF ~r.ok THEN Malformed ELSE Read(head.value \o r.value, r.at)

codes_next(bytes, left, head) ==
    IF ~head.ok THEN Malformed ELSE codes_joined(head, codes_from(bytes, head.at, left))

codes_single(r) == IF ~r.ok THEN Malformed ELSE Read(<<r.value>>, r.at)

codes_from(bytes, at, left) ==
    IF left = 0 THEN Read(<<>>, at)
    ELSE IF left = 1 THEN codes_single(deserialize_code(bytes, at))
    ELSE codes_next(bytes, left - left \div 2, codes_from(bytes, at, left \div 2))

\* main.rs 72-81: bincode::deserialize(&contents), which does not mind
\* bytes that follow the value
deserialize(bytes) == codes_of(bytes, read_unsigned(bytes, 1, 8))

\* main.rs 57-61: the code get_codes hands out for a source file
Wrapped(codes) == <<PushFun(<<>>, codes), Op0("Call"), Op0("Return")>>

(***************************************************************************)
(* interpreter/mod.rs 75-395: start and run.  One action per arm of run's  *)
(* match; an arm that ends in `return Fail(errors)` ends the run, as every *)
(* caller passes the failure on (attempt!).                                *)
(***************************************************************************)
\* mod.rs 379-389: the global scope start builds from builtins.rs 27-44
Builtins == <<RNative(1, "print"), RNative(1, "len")>>

BuiltinScope ==
    [variables |-> [name \in {Builtins[i].closure : i \in 1..Len(Builtins)} |->
                       Pointer(CHOOSE i \in 1..Len(Builtins) : Builtins[i].closure = name)],
     parent |-> 0]

BuiltinHeap == [i \in 1..Len(Builtins) |-> Cell(Builtins[i])]

VmInit ==
    /\ program \in Programs
    /\ code_pos_table = generate_codes(ProgramTree(program)).cpt
    /\ frames = <<[codes |-> generate_codes(ProgramTree(program)).codes, ip |-> 0,
                   stack |-> <<>>, scope |-> 1, function |-> None]>>
    /\ scopes = <<BuiltinScope>>
    /\ heap = BuiltinHeap
    /\ output = <<>>
    /\ status = "running"
    /\ errors = <<>>
    /\ CgIdle
    /\ GcIdle
    /\ OpIdle
    /\ UnitIdle
    /\ ParserIdle

\* the innermost activation and the operation at its ip
Top == frames[Len(frames)]
Cur == Top.codes[Top.ip + 1]

\* the k-th value from the top of the stack, and the stack without its top k
Peek(k) == Top.stack[Len(Top.stack) - k + 1]
Popped(k) == SubSeq(Top.stack, 1, Len(Top.stack) - k)

\* how many values an operation pops with unwrap before anything else
Needs(c) ==
    CASE c.op \in {"Call", "Return", "Dup", "JumpNot", "Jump", "Neg", "BoolNot", "Store"} -> 1
      [] c.op \in PlainBinaryOperators \/ c.op = "Get" -> 2
      [] c.op = "Put" -> 3
      [] OTHER -> 0

\* mod.rs 87: codes[ip] exists
Fetches == status = "running" /\ Top.ip >= 0 /\ Top.ip < Len(Top.codes)

\* the operation at ip is one of ops and finds the values it unwraps
At(ops) == Fetches /\ Cur.op \in ops /\ Len(Top.stack) >= Needs(Cur)

\* the frames after the innermost one has set its stack and moved its ip
Step(stack, by) ==
    [frames EXCEPT ![Len(frames)] = [codes |-> Top.codes, ip |-> Top.ip + by,
                                     stack |-> stack, scope |-> Top.scope,
                                     function |-> Top.function]]

\* error.rs 4-21: create_runtime_error: with a source the position is
\* looked up with unwrap, without one the error has no position; then Fail
Raise(data) ==
    /\ IF ~source
       THEN /\ status' = "failed"
            /\ errors' = <<[data |-> data]>>
       ELSE IF Top.ip \in DOMAIN code_pos_table
       THEN /\ status' = "failed"
            /\ errors' = <<[pos |-> code_pos_table[Top.ip], data |-> data]>>
       ELSE /\ status' = "panicked"
            /\ errors' = <<>>
    /\ UNCHANGED <<program, code_pos_table, frames, scopes, heap>>

Quiet == UNCHANGED <<program, code_pos_table, status, errors, cgvars, gcvars, opvars, unitvars, parservars>>

\* the operations whose arm calls Garbage::new
Allocating == {"PushFun", "PushString", "PushBendy", "PushList"}

\* object.rs 529-540: Garbage::new assigns through the pointer alloc
\* returned, which drops the uninitialised RefObject found there: undefined
\* behaviour, which either goes unnoticed (the other actions) or ends the
\* process
AllocFault ==
    /\ At(Allocating)
    /\ status' = "aborted"
    /\ UNCHANGED <<program, code_pos_table, frames, scopes, heap, output, errors,
                   cgvars, gcvars, opvars, unitvars, parservars>>

\* mod.rs 89-92
PushFunOp ==
    /\ At({"PushFun"})
    /\ heap' = GarbageNew(heap, RFunction(Cur.args, Cur.codes))
    /\ frames' = Step(Append(Top.stack, NewPointer(heap)), 1)
    /\ UNCHANGED <<scopes, output>>
    /\ Quiet

\* the order in which Call binds the parameters (mod.rs 100: args.iter().rev())
RECURSIVE Reverse(_)
Reverse(s) == IF s = <<>> THEN <<>> ELSE Append(Reverse(Tail(s)), Head(s))

\* the parameters taken first to last
KeepOrder(args) == args

\* mod.rs 100: args.iter().rev()
BindOrder(args) == Reverse(args)

\* mod.rs 100-102: each parameter in turn is stored into the new scope with
\* the value popped for it (values: in the order popped)
RECURSIVE BindArgs(_, _, _, _, _)
BindArgs(ss, h, id, names, values) ==
    IF names = <<>> THEN [scopes |-> ss, heap |-> h]
    ELSE LET r == store(ss, id, Head(names), Head(values))
         IN BindArgs(r.scopes, GarbageDrop(h, r.old), id, Tail(names), Tail(values))

\* the values popped for n parameters, in the order popped
PoppedArgs(stack, n) == [i \in 1..n |-> stack[Len(stack) - i + 1]]

\* mod.rs 93-121, RefObject::Function with a value for every parameter: the
\* callee starts on an empty stack in a new scope
CallFunction ==
    /\ At({"Call"})
    /\ IsRef(heap, Peek(1), "Function")
    /\ LET fn == heap[Peek(1).value].obj
           n == Len(fn.args)
           rest == Popped(1)
           id == Len(scopes) + 1
           bound == BindArgs(Append(scopes, from_parent(CalleeParent(Top.scope))), heap, id,
                             BindOrder(fn.args), PoppedArgs(rest, n))
       IN /\ Len(rest) >= n
          /\ scopes' = bound.scopes
          /\ heap' = bound.heap
          /\ frames' = Append(Step(SubSeq(rest, 1, Len(rest) - n), 0),
                              [codes |-> fn.codes, ip |-> 0, stack |-> <<>>, scope |-> id,
                               function |-> Peek(1)])
    /\ UNCHANGED output
    /\ Quiet

\* {:?} of a HashMap<usize, usize>: the entries between braces (here by
\* rising key; the map hands them out in an order of its own)
RECURSIVE fmt_entries(_, _)
fmt_entries(m, keys) ==
    IF keys = {} THEN ""
    ELSE LET k == CHOOSE x \in keys : \A y \in keys : x <= y
         IN ToString(k) \o ": " \o ToString(m[k]) \o
            (IF keys = {k} THEN "" ELSE ", " \o fmt_entries(m, keys \ {k}))

fmt_map(m) == "{" \o fmt_entries(m, DOMAIN m) \o "}"

\* mod.rs 103-114: the stack is empty before every parameter has its value:
\* a line for the developer, then CallArgs with the number bound so far
CallArgsFail ==
    /\ At({"Call"})
    /\ IsRef(heap, Peek(1), "Function")
    /\ Len(Popped(1)) < Len(heap[Peek(1).value].obj.args)
    /\ output' = Append(output, ToString(Top.ip) \o ", " \o fmt_map(code_pos_table))
    /\ Raise(CallArgs(Len(heap[Peek(1).value].obj.args), Len(Popped(1))))
    /\ UNCHANGED <<cgvars, gcvars, opvars, unitvars, parservars>>

\* mod.rs 122-130, RefObject::Native
CallNative ==
    /\ At({"Call"})
    /\ IsRef(heap, Peek(1), "Native")
    /\ LET native == heap[Peek(1).value].obj
           rest == Popped(1)
           args == PoppedArgs(rest, native.arg_count)
           return_val == IF native.closure = "print" THEN None ELSE native_len(heap, args)
       IN /\ Len(rest) >= native.arg_count
          /\ \E order \in Orders(heap) :
                 output' = IF native.closure = "print"
                           THEN Append(output, native_print(heap, args, order))
                           ELSE output
          /\ heap' = GarbageDrop(DropAll(heap, args), Peek(1))
          /\ frames' = Step(Append(SubSeq(rest, 1, Len(rest) - native.arg_count),
                                   return_val), 1)
    /\ UNCHANGED scopes
    /\ Quiet

\* mod.rs 131-153: anything else is not callable
CallTypeFail ==
    /\ At({"Call"})
    /\ ~IsRef(heap, Peek(1), "Function")
    /\ ~IsRef(heap, Peek(1), "Native")
    /\ Raise(IncorrectType(<<"function", "native">>, get_type_name(heap, Peek(1))))
    /\ UNCHANGED <<output, cgvars, gcvars, opvars, unitvars, parservars>>

\* the Object a push of an immediate value makes (mod.rs 156-173, 179-181)
ImmediateOf(c) ==
    CASE c.op \in {"PushByte", "PushShort", "PushInt", "PushLong"} -> Integer(c.n)
      [] c.op = "PushDouble" -> Float(c.num, c.den)
      [] c.op = "PushBoolean" -> Boolean(c.b)
      [] c.op = "PushNone" -> None

PushImmediate ==
    /\ At({"PushByte", "PushShort", "PushInt", "PushLong", "PushDouble", "PushBoolean",
           "PushNone"})
    /\ frames' = Step(Append(Top.stack, ImmediateOf(Cur)), 1)
    /\ UNCHANGED <<scopes, heap, output>>
    /\ Quiet

\* the RefObject a push of a new object makes (mod.rs 174-178)
ObjectOf(c) ==
    CASE c.op = "PushString" -> RString(c.s)
      [] c.op = "PushBendy" -> RBendy(EmptyMap)
      [] c.op = "PushList" -> RList(<<>>)

PushObject ==
    /\ At({"PushString", "PushBendy", "PushList"})
    /\ heap' = GarbageNew(heap, ObjectOf(Cur))
    /\ frames' = Step(Append(Top.stack, NewPointer(heap)), 1)
    /\ UNCHANGED <<scopes, output>>
    /\ Quiet

\* mod.rs 182-184: the activation ends; its stack and its scope are dropped.
\* A callee hands the value to its caller (mod.rs 116-120), which then drops
\* the function handle; start drops the value of the outermost activation.
ReturnOp ==
    /\ At({"Return"})
    /\ LET dropped == DropAll(DropAll(heap, Popped(1)),
                              MapValues(scopes[Top.scope].variables))
           caller == frames[Len(frames) - 1]
       IN IF Len(frames) > 1
          THEN /\ heap' = GarbageDrop(dropped, Top.function)
               /\ frames' = [SubSeq(frames, 1, Len(frames) - 1) EXCEPT
                                ![Len(frames) - 1] =
                                    [codes |-> caller.codes, ip |-> caller.ip + 1,
                                     stack |-> Append(caller.stack, Peek(1)),
                                     scope |-> caller.scope, function |-> caller.function]]
               /\ scopes' = SubSeq(scopes, 1, Len(scopes) - 1)
               /\ UNCHANGED status
          ELSE /\ heap' = GarbageDrop(dropped, Peek(1))
               /\ frames' = <<>>
               /\ scopes' = <<>>
               /\ status' = "done"
    /\ UNCHANGED <<program, code_pos_table, output, errors, cgvars, gcvars, opvars, unitvars, parservars>>

\* mod.rs 185-188
DupOp ==
    /\ At({"Dup"})
    /\ heap' = GarbageClone(heap, Peek(1))
    /\ frames' = Step(Append(Top.stack, Peek(1)), 1)
    /\ UNCHANGED <<scopes, output>>
    /\ Quiet

\* mod.rs 189-191: pop without unwrap
PopOp ==
    /\ At({"Pop"})
    /\ IF Top.stack = <<>>
       THEN /\ frames' = Step(<<>>, 1)
            /\ UNCHANGED heap
       ELSE /\ frames' = Step(Popped(1), 1)
            /\ heap' = GarbageDrop(heap, Peek(1))
    /\ UNCHANGED <<scopes, output>>
    /\ Quiet

\* mod.rs 192-199
GotoOp ==
    /\ At({"Goto"})
    /\ frames' = Step(Top.stack, Cur.off)
    /\ UNCHANGED <<scopes, heap, output>>
    /\ Quiet

\* mod.rs 200-209
JumpNotOp ==
    /\ At({"JumpNot"})
    /\ frames' = Step(Popped(1), IF ~truthy(heap, Peek(1)) THEN Cur.off ELSE 1)
    /\ heap' = GarbageDrop(heap, Peek(1))
    /\ UNCHANGED <<scopes, output>>
    /\ Quiet

\* mod.rs 210-219
JumpOp ==
    /\ At({"Jump"})
    /\ frames' = Step(Popped(1), IF truthy(heap, Peek(1)) THEN Cur.off ELSE 1)
    /\ heap' = GarbageDrop(heap, Peek(1))
    /\ UNCHANGED <<scopes, output>>
    /\ Quiet

\* mod.rs 220-234
NegOp ==
    /\ At({"Neg"})
    /\ IF IsNumber(Peek(1))
       THEN /\ frames' = Step(Append(Popped(1),
                                     IF Peek(1).t = "Integer" THEN Integer(-Peek(1).value)
                                     ELSE Float(-Peek(1).num, Peek(1).den)), 1)
            /\ UNCHANGED <<scopes, heap, output>>
            /\ Quiet
       ELSE /\ Raise(IncorrectType(<<"integer", "float">>, get_type_name(heap, Peek(1))))
            /\ UNCHANGED <<output, cgvars, gcvars, opvars, unitvars, parservars>>

\* mod.rs 235-238
BoolNotOp ==
    /\ At({"BoolNot"})
    /\ frames' = Step(Append(Popped(1), Boolean(~truthy(heap, Peek(1)))), 1)
    /\ heap' = GarbageDrop(heap, Peek(1))
    /\ UNCHANGED <<scopes, output>>
    /\ Quiet

\* a % 0 panics (object.rs 294)
\* the operands in the reverse order: the top of the stack as the left one
OperandsSwapped == <<Peek(1), Peek(2)>>

\* mod.rs 257-258: b is popped first and a second; a.operate(b, ..) has the
\* value beneath the top as the left and the top as the right operand
Operands == <<Peek(2), Peek(1)>>

DividesByZero ==
    /\ Cur.op = "Mod"
    /\ Operands[2].t = "Integer"
    /\ Operands[1].t = "Integer"
    /\ Operands[2].value = 0

\* mod.rs 239-263: b and a are dropped after the result is pushed
BinaryOp ==
    /\ At(PlainBinaryOperators)
    /\ ~DividesByZero
    /\ ~Overflows(heap, Operands[1], Operands[2], Cur.op)
    /\ \E order \in Orders(heap) :
       LET result == operate(heap, Operands[1], Operands[2], Cur.op, order)
           made == IF result.alloc
                   THEN GarbageNew(CloneAll(heap, result.clones), result.obj)
                   ELSE heap
           pushed == IF result.alloc THEN NewPointer(heap) ELSE result.value
       IN IF result.ok
          THEN /\ frames' = Step(Append(Popped(2), pushed), 1)
               /\ heap' = GarbageDrop(GarbageDrop(made, Peek(1)), Peek(2))
               /\ UNCHANGED <<scopes, output>>
               /\ Quiet
          ELSE /\ Raise(result.data)
               /\ UNCHANGED <<output, cgvars, gcvars, opvars, unitvars, parservars>>

\* a comparison or a to_string that never returns (object.rs 70, 77, 120,
\* 127) uses up the stack of the process
StackOverflow ==
    /\ At(PlainBinaryOperators)
    /\ Overflows(heap, Operands[1], Operands[2], Cur.op)
    /\ status' = "aborted"
    /\ UNCHANGED <<program, code_pos_table, frames, scopes, heap, output, errors,
                   cgvars, gcvars, opvars, unitvars, parservars>>

\* Vec index assignment after the list has been padded with none up to the
\* index (mod.rs 275-278)
PutList(data, index, value) ==
    [i \in 1..(IF index + 1 > Len(data) THEN index + 1 ELSE Len(data)) |->
        IF i = index + 1 THEN value ELSE IF i <= Len(data) THEN data[i] ELSE None]

\* the element an assignment to data[index] drops
PutListOld(data, index) == IF index + 1 <= Len(data) THEN data[index + 1] ELSE None

\* the arms of Put and Get that are unimplemented!() (mod.rs 287-289, 351-353)
Indexable(h, v, kinds) == IsPointer(v) /\ h[v.value].obj.r \in kinds

\* mod.rs 264-291: value, index and object are popped; the object's handle
\* and the index are dropped at the end of the arm
PutOp ==
    /\ At({"Put"})
    /\ Indexable(heap, Peek(3), {"List", "Bendy"})
    /\ LET value == Peek(1)
           index == Peek(2)
           object == Peek(3)
           o == heap[object.value].obj
       IN IF o.r = "List"
          THEN /\ index.t = "Integer" => index.value >= 0
               /\ IF index.t = "Integer"
                  THEN /\ heap' = GarbageDrop(GarbageDrop(GarbageDrop(
                                      [heap EXCEPT ![object.value].obj.data =
                                           PutList(o.data, index.value, value)],
                                      PutListOld(o.data, index.value)), object), index)
                       /\ frames' = Step(Popped(3), 1)
                       /\ UNCHANGED <<scopes, output>>
                       /\ Quiet
                  ELSE /\ Raise(IncorrectType(<<"integer">>, get_type_name(heap, index)))
                       /\ UNCHANGED <<output, cgvars, gcvars, opvars, unitvars, parservars>>
          ELSE IF IsRef(heap, index, "String")
               THEN /\ heap' = GarbageDrop(GarbageDrop(GarbageDrop(
                                   [heap EXCEPT ![object.value].obj.data =
                                        MapInsert(o.data, heap[index.value].obj.value, value)],
                                   IF heap[index.value].obj.value \in DOMAIN o.data
                                   THEN o.data[heap[index.value].obj.value] ELSE None),
                                   object), index)
                    /\ frames' = Step(Popped(3), 1)
                    /\ UNCHANGED <<scopes, output>>
                    /\ Quiet
               ELSE /\ Raise(IncorrectType(<<"string">>, get_type_name(heap, index)))
                    /\ UNCHANGED <<output, cgvars, gcvars, opvars, unitvars, parservars>>

\* a lookup that takes an index below 0 as counted from the end
SlotFromEnd(index, len) ==
    IF index >= 0 /\ index < len THEN index + 1
    ELSE IF index < 0 /\ -index <= len THEN len + index + 1
    ELSE 0

\* Vec::get(index as usize), chars().skip(index as usize).next() (mod.rs
\* 302, 319): the 1-based place the lookup finds, 0 for Option::None.  The
\* cast turns an index below 0 into one from 2^63 on, past every length.
Slot(index, len) == IF index >= 0 /\ index < len THEN index + 1 ELSE 0

\* what Get finds (mod.rs 297-350): Ok with a clone of an element, Ok with a
\* new one-character string, or Err
get(h, object, index) ==
    LET o == h[object.value].obj
    IN CASE o.r = "List" ->
              IF index.t # "Integer"
              THEN Err(IncorrectType(<<"integer">>, get_type_name(h, index)))
              ELSE IF Slot(index.value, Len(o.data)) # 0
              THEN OkValue(o.data[Slot(index.value, Len(o.data))])
              ELSE Err(IndexOutOfBounds)
         [] o.r = "String" ->
              IF index.t # "Integer"
              THEN Err(IncorrectType(<<"integer">>, get_type_name(h, index)))
              ELSE IF Slot(index.value, Len(o.value)) # 0
              THEN OkObject(RString(SubSeq(o.value, Slot(index.value, Len(o.value)),
                                           Slot(index.value, Len(o.value)))), <<>>)
              ELSE Err(IndexOutOfBounds)
         [] o.r = "Bendy" ->
              IF ~IsRef(h, index, "String")
              THEN Err(IncorrectType(<<"string">>, get_type_name(h, index)))
              ELSE IF h[index.value].obj.value \in DOMAIN o.data
              THEN OkValue(o.data[h[index.value].obj.value])
              ELSE Err(IndexOutOfBounds)

\* mod.rs 292-355
GetOp ==
    /\ At({"Get"})
    /\ Indexable(heap, Peek(2), {"List", "String", "Bendy"})
    /\ LET result == get(heap, Peek(2), Peek(1))
           made == IF result.alloc THEN GarbageNew(heap, result.obj)
                   ELSE IF result.ok THEN GarbageClone(heap, result.value)
                   ELSE heap
           pushed == IF result.alloc THEN NewPointer(heap) ELSE result.value
       IN IF result.ok
          THEN /\ frames' = Step(Append(Popped(2), pushed), 1)
               /\ heap' = GarbageDrop(GarbageDrop(made, Peek(2)), Peek(1))
               /\ UNCHANGED <<scopes, output>>
               /\ Quiet
          ELSE /\ Raise(result.data)
               /\ UNCHANGED <<output, cgvars, gcvars, opvars, unitvars, parservars>>

\* mod.rs 356-369: load hands out a clone
LoadOp ==
    /\ At({"Load"})
    /\ LET value == load(scopes, Top.scope, Cur.name)
       IN IF value # NotFound
          THEN /\ frames' = Step(Append(Top.stack, value), 1)
               /\ heap' = GarbageClone(heap, value)
               /\ UNCHANGED <<scopes, output>>
               /\ Quiet
          ELSE /\ Raise(VariableNotFound(Cur.name))
               /\ UNCHANGED <<output, cgvars, gcvars, opvars, unitvars, parservars>>

\* mod.rs 370-373: a clone of the popped value is stored, the value the
\* insert replaced and then the popped value are dropped
StoreOp ==
    /\ At({"Store"})
    /\ LET stored == store(scopes, Top.scope, Cur.name, Peek(1))
       IN /\ scopes' = stored.scopes
          /\ heap' = GarbageDrop(GarbageDrop(GarbageClone(heap, Peek(1)), stored.old), Peek(1))
    /\ frames' = Step(Popped(1), 1)
    /\ UNCHANGED output
    /\ Quiet

\* the places where run panics: codes[ip] past the end (mod.rs 87), an
\* unwrap of a pop from an empty stack (mod.rs 94, 125, 183, 186, 201, 211,
\* 220, 236, 257-258, 265-267, 293-294, 371), unimplemented!() (mod.rs
\* 287-289, 351-353), a list index below 0 (mod.rs 275-278), % 0
Panics ==
    \/ ~Fetches
    \/ Len(Top.stack) < Needs(Cur)
    \/ /\ Cur.op = "Call"
       /\ IsRef(heap, Peek(1), "Native")
       /\ Len(Popped(1)) < heap[Peek(1).value].obj.arg_count
    \/ Cur.op = "Put" /\ ~Indexable(heap, Peek(3), {"List", "Bendy"})
    \/ Cur.op = "Get" /\ ~Indexable(heap, Peek(2), {"List", "String", "Bendy"})
    \/ /\ Cur.op = "Put"
       /\ IsRef(heap, Peek(3), "List")
       /\ Peek(2).t = "Integer"
       /\ Peek(2).value < 0
    \/ Cur.op \in PlainBinaryOperators /\ DividesByZero

Panic ==
    /\ status = "running"
    /\ Panics
    /\ status' = "panicked"
    /\ UNCHANGED <<program, code_pos_table, frames, scopes, heap, output, errors,
                   cgvars, gcvars, opvars, unitvars, parservars>>

VmNext ==
    \/ PushFunOp
    \/ CallFunction
    \/ CallArgsFail
    \/ CallNative
    \/ CallTypeFail
    \/ PushImmediate
    \/ PushObject
    \/ ReturnOp
    \/ DupOp
    \/ PopOp
    \/ GotoOp
    \/ JumpNotOp
    \/ JumpOp
    \/ NegOp
    \/ BoolNotOp
    \/ BinaryOp
    \/ StackOverflow
    \/ PutOp
    \/ GetOp
    \/ LoadOp
    \/ StoreOp
    \/ AllocFault
    \/ Panic

Spec == VmInit /\ [][VmNext]_vars

(***************************************************************************)
(* main.rs 101-181: the commands. After the run on the source text, the    *)
(* compile command writes the unit and the run command is given the unit.  *)
(***************************************************************************)
\* the operations the three of get_codes come to run, which start begins
\* with as VmInit does
Body(codes) == codes[1].codes

\* main.rs 143-178, run with compile on a source file: get_codes parses and
\* generates, the serialized codes are written to the output file
WriteUnit ==
    /\ status # "running"
    /\ source
    /\ unit = <<>>
    /\ generate_codes(ProgramTree(program)).fine
    /\ unit' = serialize(Wrapped(generate_codes(ProgramTree(program)).codes))
    /\ UNCHANGED <<source, first, cgvars, vmvars, gcvars, opvars, parservars>>

\* main.rs 62-81 and 143-181, run on the unit: get_codes deserializes the
\* contents and hands out an empty code_pos_table and no source;
\* interpreter::start builds its scope and memory anew
RunUnit ==
    /\ source
    /\ unit # <<>>
    /\ first' = [status |-> status, output |-> output]
    /\ source' = FALSE
    /\ code_pos_table' = EmptyMap
    /\ scopes' = <<BuiltinScope>>
    /\ heap' = BuiltinHeap
    /\ output' = <<>>
    /\ IF deserialize(unit).ok
       THEN /\ frames' = <<[codes |-> Body(deserialize(unit).value), ip |-> 0,
                            stack |-> <<>>, scope |-> 1, function |-> None]>>
            /\ status' = "running"
            /\ errors' = <<>>
       ELSE /\ frames' = <<>>
            /\ status' = "failed"
            /\ errors' = <<[data |-> [kind |-> "Deserialize"]]>>
    /\ UNCHANGED <<program, unit, cgvars, gcvars, opvars, parservars>>

UnitNext ==
    \/ VmNext
    \/ WriteUnit
    \/ RunUnit

UnitSpec == VmInit /\ [][UnitNext]_vars

(***************************************************************************)
(* interpreter/garbage.rs and interpreter/data.rs: the collector and the   *)
(* Data it manages.  memory[p] is what the pointer p leads to; a Garbage   *)
(* is its pointer.  The client allocates Data, links them through          *)
(* DerefMut and calls run with the handles it holds.                       *)
(***************************************************************************)
\* data.rs 7-35: the Data of this model
DataInteger(value) == [d |-> "Integer", value |-> value]
DataList(data) == [d |-> "List", data |-> data]
DataBendy(data) == [d |-> "Bendy", data |-> data]

\* the keys the client uses in a bendy
Keys == {"a", "b"}

\* data.rs 95-103: get_references
get_references(data) ==
    CASE data.d = "List" -> data.data
      [] data.d = "Bendy" -> MapValues(data.data)
      [] OTHER -> <<>>

\* garbage.rs 18-26 and data.rs 105-158: Garbage::eq is true for the same
\* pointer and otherwise compares what the pointers lead to, element by
\* element; "overflow" when the comparison never returns
RECURSIVE GarbageEq(_, _, _, _)
DataEq(mem, x, y, depth) ==
    CASE x.d = "Integer" ->
            IF y.d = "Integer" /\ x.value = y.value THEN "true" ELSE "false"
      [] x.d = "List" ->
            IF y.d # "List" THEN "false"
            ELSE IF Len(x.data) # Len(y.data) THEN "false"
            ELSE AllEq([i \in 1..Len(x.data) |->
                           GarbageEq(mem, x.data[i], y.data[i], depth)])
      [] x.d = "Bendy" ->
            IF y.d # "Bendy" THEN "false"
            ELSE IF DOMAIN x.data # DOMAIN y.data THEN "false"
            ELSE AllEq(MapValues([k \in DOMAIN x.data |->
                                     GarbageEq(mem, x.data[k], y.data[k], depth)]))

GarbageEq(mem, a, b, depth) ==
    IF a = b THEN "true"
    ELSE IF depth = 0 THEN "overflow"
    ELSE DataEq(mem, mem[a].data, mem[b].data, depth - 1)

\* how deep a comparison that returns can go
EqDepth(mem) == Len(mem) * Len(mem)

\* a == b as a HashSet may come to evaluate it; what a freed pointer leads
\* to is arbitrary
CouldEqual(mem, a, b) ==
    \/ ~mem[a].alive
    \/ ~mem[b].alive
    \/ GarbageEq(mem, a, b, EqDepth(mem)) = "true"

\* HashSet::insert with garbage.rs 12-26: the hash is the pointer's, the
\* equality the contents'.  The pointers in collide meet, in their bucket,
\* an entry with the same hash tag; if that entry is equal the set takes
\* the pointer for present
HashInsert(mem, set, x, collide) ==
    IF x \in set THEN set
    ELSE IF x \in collide /\ \E y \in set : CouldEqual(mem, y, x) THEN set
    ELSE set \cup {x}

\* HashSet::extend
RECURSIVE HashExtend(_, _, _, _)
HashExtend(mem, set, xs, collide) ==
    IF xs = <<>> THEN set
    ELSE HashExtend(mem, HashInsert(mem, set, Head(xs), collide), Tail(xs), collide)

\* HashSet::contains
HashContains(mem, set, x, collide) ==
    x \in set \/ (x \in collide /\ \E y \in set : CouldEqual(mem, y, x))

\* the pointers of a set in the order they are iterated
RECURSIVE Ascending(_)
Ascending(set) ==
    IF set = {} THEN <<>>
    ELSE <<CHOOSE x \in set : \A y \in set : x <= y>>
             \o Ascending(set \ {CHOOSE x \in set : \A y \in set : x <= y})

\* garbage.rs 85-94: trace calls itself for the references of every root
\* and has no record of where it has been; overflow when the recursion
\* never ends
RECURSIVE trace(_, _, _, _)
trace_done(mem, root, collide, traced) ==
    [overflow |-> \E t \in traced : t.overflow,
     reachable |-> HashExtend(mem,
                              HashExtend(mem, {},
                                         Ascending(UNION {t.reachable : t \in traced}),
                                         collide),
                              Ascending(root), collide)]

trace(mem, root, collide, depth) ==
    IF root = {} THEN [overflow |-> FALSE, reachable |-> {}]
    ELSE IF depth = 0 THEN [overflow |-> TRUE, reachable |-> {}]
    ELSE trace_done(mem, root, collide,
                    {trace(mem, HashExtend(mem, {}, get_references(mem[r].data), collide),
                           collide, depth - 1) : r \in root})

\* garbage.rs 98-106: the pointers run finds dead
dead_of(mem, refs, traced, confused) ==
    [overflow |-> traced.overflow,
     dead |-> {r \in refs : ~HashContains(mem, traced.reachable, r, confused)}]

run(mem, refs, root, deduped, confused) ==
    dead_of(mem, refs,
            trace(mem, HashExtend(mem, {}, Ascending(root), deduped), deduped, Len(mem)),
            confused)

Alive == {p \in 1..Len(memory) : memory[p].alive}

TotalLinks == SumSeq([p \in 1..Len(memory) |-> Len(get_references(memory[p].data))])

GcInit ==
    /\ memory = <<>>
    /\ references = {}
    /\ allocs = 0
    /\ runs = 0
    /\ last_root = {}
    /\ gc_status = "idle"
    /\ CgIdle
    /\ VmIdle
    /\ OpIdle
    /\ UnitIdle
    /\ ParserIdle

\* garbage.rs 72-77: alloc; Box::new returns an address not in use, which
\* may be one a dealloc gave back
GcAlloc ==
    /\ gc_status = "idle"
    /\ allocs < MaxObjs
    /\ allocs' = allocs + 1
    /\ \E data \in {DataInteger(1), DataList(<<>>), DataBendy(EmptyMap)},
          p \in 1..(Len(memory) + 1),
          collide \in BOOLEAN :
        /\ p <= Len(memory) => ~memory[p].alive
        /\ memory' = [q \in 1..(IF p > Len(memory) THEN p ELSE Len(memory)) |->
                         IF q = p THEN [data |-> data, alive |-> TRUE] ELSE memory[q]]
        /\ references' = HashInsert(memory', references, p, IF collide THEN {p} ELSE {})
        /\ collide => references' = references
    /\ UNCHANGED <<runs, last_root, gc_status, cgvars, vmvars, opvars, unitvars, parservars>>

\* the client stores the handle q in the list or bendy p (garbage.rs 49-53)
GcLink ==
    /\ gc_status = "idle"
    /\ TotalLinks < MaxLinks
    /\ \E p \in Alive, q \in Alive, k \in Keys :
        /\ memory[p].data.d \in {"List", "Bendy"}
        /\ memory[p].data.d = "List" => k = "a"
        /\ memory' = [memory EXCEPT ![p].data.data =
                         IF memory[p].data.d = "List" THEN Append(@, q)
                         ELSE MapInsert(@, k, q)]
    /\ UNCHANGED <<references, allocs, runs, last_root, gc_status, cgvars, vmvars, opvars, unitvars, parservars>>

\* garbage.rs 79-83, 107-109: every dead pointer is freed
Freed(mem, dead) ==
    [p \in 1..Len(mem) |-> IF p \in dead THEN [mem[p] EXCEPT !.alive = FALSE] ELSE mem[p]]

\* run has undefined behaviour when it frees a pointer again, and a
\* comparison that never returns ends like a trace that never returns
Undefined(mem, dead) == \E p \in dead : ~mem[p].alive

Unbounded(mem, compared) ==
    \E x \in compared, y \in 1..Len(mem) :
        mem[x].alive /\ mem[y].alive /\ GarbageEq(mem, y, x, EqDepth(mem)) = "overflow"

\* the pointers a HashSet can take for another one
Confusable(mem, set) == {x \in set : \E y \in 1..Len(mem) : y # x /\ CouldEqual(mem, y, x)}

\* run ends when trace or a comparison never returns, may end when it frees
\* a pointer again, and otherwise frees the dead
Ran(root, found, compared, crash) ==
    /\ crash => found.overflow \/ Undefined(memory, found.dead)
                    \/ Unbounded(memory, compared)
    /\ found.overflow => crash
    /\ IF crash
       THEN /\ gc_status' = "aborted"
            /\ UNCHANGED <<memory, runs>>
       ELSE /\ memory' = Freed(memory, found.dead)
            /\ runs' = runs + 1
            /\ UNCHANGED gc_status
    /\ last_root' = root

\* garbage.rs 96-110: run with the handles of root
GcRun ==
    /\ gc_status = "idle"
    /\ runs < MaxRuns
    /\ \E root \in SUBSET Alive,
          deduped \in SUBSET Confusable(memory, Alive),
          confused \in SUBSET Confusable(memory, references),
          crash \in BOOLEAN :
        Ran(root, run(memory, references, root, deduped, confused),
            deduped \cup confused, crash)
    /\ UNCHANGED <<references, allocs, cgvars, vmvars, opvars, unitvars, parservars>>

GcNext ==
    \/ GcAlloc
    \/ GcLink
    \/ GcRun

GcSpec == GcInit /\ [][GcNext]_vars

(***************************************************************************)
(* interpreter/object.rs 334-520: one call of operate.  The operands are   *)
(* drawn from values of every variant; the pointers among them lead to the *)
(* cells of SampleObjects.                                                 *)
(***************************************************************************)
\* the body of the sampled functions
SampleCodes == <<Op0("PushNone"), Op0("Return")>>

\* the cells: 6 is a list that holds itself (xs = new []; xs[0] = xs;),
\* 9 and 10 hold the same pairs, 11 and 12 are functions that differ in
\* their parameters only, 14 has the contents of 1
SampleObjects ==
    << RString("ab"), RString("1"), RList(<<>>), RList(<<Integer(1)>>),
       RList(<<Float(1, 1)>>), RList(<<Pointer(6)>>), RBendy(EmptyMap),
       RBendy(MapInsert(EmptyMap, "a", Integer(1))),
       RBendy(MapInsert(MapInsert(EmptyMap, "a", Integer(1)), "b", Integer(2))),
       RBendy(MapInsert(MapInsert(EmptyMap, "b", Integer(2)), "a", Integer(1))),
       RFunction(<<>>, SampleCodes), RFunction(<<"p">>, SampleCodes),
       RNative(1, "print"), RString("ab") >>

\* the operands: Integers of one half, among them shift counts around the
\* bit width; the Floats -3.5, 0.0, 1.0, 2.0, 3.5; the other immediate
\* values; a pointer to every cell
SampleValues ==
    << Integer(-7), Integer(0), Integer(1), Integer(2), Integer(7),
       Integer(IntegerBits), Integer(IntegerBits + 1),
       Float(-7, 2), Float(0, 1), Float(1, 1), Float(2, 1), Float(7, 2),
       Boolean(TRUE), Boolean(FALSE), None >>
        \o [a \in 1..Len(SampleObjects) |-> Pointer(a)]

\* 2^32 and 2^32 + 1
WideIntegers == <<WideInteger(1, 0), WideInteger(1, 1)>>

Shifts == {"BitLsh", "BitRsh"}

\* the right operands of a code: an Integer of two halves only as the count
\* of a shift
RightOperands(code) ==
    SampleValues \o (IF code \in Shifts THEN WideIntegers ELSE <<>>)

OpInit ==
    /\ cells = [a \in 1..Len(SampleObjects) |-> Cell(SampleObjects[a])]
    /\ opcode \in PlainBinaryOperators
    /\ \E i \in 1..Len(SampleValues) : lhs = SampleValues[i]
    /\ \E i \in 1..Len(RightOperands(opcode)) : rhs = RightOperands(opcode)[i]
    /\ outcome = [state |-> "called"]
    /\ CgIdle
    /\ VmIdle
    /\ GcIdle
    /\ UnitIdle
    /\ ParserIdle

\* a % 0 on Integers panics (object.rs 294)
OperatePanics == opcode = "Mod" /\ lhs.t = "Integer" /\ rhs.t = "Integer" /\ rhs.value = 0

\* operate returns Ok(..) or Err(..)
Operate ==
    /\ outcome.state = "called"
    /\ ~OperatePanics
    /\ ~Overflows(cells, lhs, rhs, opcode)
    /\ \E order \in Orders(cells) :
           outcome' = [state |-> "returned",
                       result |-> operate(cells, lhs, rhs, opcode, order)]
    /\ UNCHANGED <<cells, lhs, rhs, opcode, cgvars, vmvars, gcvars, unitvars, parservars>>

OperatePanic ==
    /\ outcome.state = "called"
    /\ OperatePanics
    /\ outcome' = [state |-> "panicked"]
    /\ UNCHANGED <<cells, lhs, rhs, opcode, cgvars, vmvars, gcvars, unitvars, parservars>>

\* a comparison or a to_string that never returns uses up the stack
OperateOverflow ==
    /\ outcome.state = "called"
    /\ Overflows(cells, lhs, rhs, opcode)
    /\ outcome' = [state |-> "aborted"]
    /\ UNCHANGED <<cells, lhs, rhs, opcode, cgvars, vmvars, gcvars, unitvars, parservars>>

OpNext ==
    \/ Operate
    \/ OperatePanic
    \/ OperateOverflow

OperateSpec == OpInit /\ [][OpNext]_vars

(***************************************************************************)
(* parser.rs 79-497: mod lexer.  A text is the sequence of its chars, each *)
(* the number of its Unicode scalar value; the iterator                    *)
(* (Peekable<Enumerate<Chars>>) is the 0-based index of the char it hands  *)
(* out next.  A lexing function returns the token and the iterator it      *)
(* leaves, or the error and the iterator it leaves.                        *)
(***************************************************************************)
\* the chars of a text of printable ASCII
Text(str) == [i \in 1..Len(str) |-> ByteOf(SubSeq(str, i, i))]
CharCode(c) == ByteOf(c)

\* '\n' and '\r'
LineFeed == <<10>>
CarriageReturn == <<13>>

\* the letters beyond ASCII of the texts lexed here: ß ä ö ü ĸ
Letters == {223, 228, 246, 252, 312}

\* char::is_alphabetic, char::is_digit(10), char::is_whitespace
is_alphabetic(ch) ==
    \/ ch \in CharCode("A")..CharCode("Z")
    \/ ch \in CharCode("a")..CharCode("z")
    \/ ch \in Letters
is_digit(ch) == ch \in CharCode("0")..CharCode("9")
is_whitespace(ch) == ch \in 9..13 \/ ch = CharCode(" ")

\* char::len_utf8
len_utf8(ch) == IF ch < 128 THEN 1 ELSE IF ch < 2048 THEN 2 ELSE 3

\* String::len: the bytes of the UTF-8 encoding
RECURSIVE str_len(_)
str_len(s) == IF s = <<>> THEN 0 ELSE len_utf8(Head(s)) + str_len(Tail(s))

\* parser.rs 86-142: enum Token
EOF == [kind |-> "EOF"]
Tok(kind, pos) == [kind |-> kind, pos |-> pos]
Ident(pos, text) == [kind |-> "Ident", pos |-> pos, text |-> text]
ValString(pos, text) == [kind |-> "ValString", pos |-> pos, text |-> text]
ValInt(pos, value) == [kind |-> "ValInt", pos |-> pos, value |-> value]
ValFloat(pos, num, den) == [kind |-> "ValFloat", pos |-> pos, num |-> num, den |-> den]

\* parser.rs 145-199: get_position
get_position(token) == IF token.kind = "EOF" THEN 0 ELSE token.pos

\* Result<Token, ParserError> with the iterator
Lexed(token, at) == [ok |-> TRUE, token |-> token, at |-> at]
LexError(err, at) == [ok |-> FALSE, err |-> err, at |-> at]
ErrEOF == [kind |-> "EOF"]

\* parser.rs 53-63: the loop of get_text_pos over the chars of the text,
\* count chars taken, until count is position or the text ends
RECURSIVE TextPosFrom(_, _, _, _, _)
TextPosFrom(position, text, count, line, col) ==
    IF count = Len(text) \/ count = position THEN [ln |-> line, col |-> col]
    ELSE IF text[count + 1] = LineFeed[1]
         THEN TextPosFrom(position, text, count + 1, line + 1, 1)
         ELSE TextPosFrom(position, text, count + 1, line, col + 1)

\* parser.rs 49-66: get_text_pos, the line and column of the char with index
\* position ("ln {} col {}")
get_text_pos(position, text) == TextPosFrom(position, text, 0, 1, 1)

\* str::char_indices: the byte index of the char with index i (from 0)
RECURSIVE ByteIndex(_, _)
ByteIndex(text, i) == IF i = 0 THEN 0 ELSE ByteIndex(text, i - 1) + len_utf8(text[i])

\* errors.rs 185-193: line_starts, 0 and then the byte index of every '\n'
\* among the first start chars
RECURSIVE LineStarts(_, _, _)
LineStarts(start, text, i) ==
    IF i = Len(text) \/ i = start THEN <<>>
    ELSE (IF text[i + 1] = LineFeed[1] THEN <<ByteIndex(text, i)>> ELSE <<>>)
             \o LineStarts(start, text, i + 1)

\* errors.rs 184-196: OliveError::get_line_and_column; 1 + start - line_start
\* is computed in usize, and a difference below 0 overflows
get_line_and_column(start, text) ==
    LET line_starts == <<0>> \o LineStarts(start, text, 0)
        line_start == line_starts[Len(line_starts)]
    IN IF 1 + start >= line_start
       THEN [ln |-> Len(line_starts), col |-> 1 + start - line_start, overflow |-> FALSE]
       ELSE [ln |-> Len(line_starts), col |-> 0, overflow |-> TRUE]

\* a loop that takes chars while Keep holds of them: the iterator where it
\* stops, which is Len(text) when the text ends first
Stop(text, at, Keep(_)) ==
    CHOOSE e \in at..Len(text) :
        /\ \A i \in at..(e - 1) : Keep(text[i + 1])
        /\ e = Len(text) \/ ~Keep(text[e + 1])

\* parser.rs 227-243: the keywords
Keywords ==
    << <<"fun", "Fun">>, <<"if", "If">>, <<"else", "Else">>, <<"while", "While">>,
       <<"continue", "Continue">>, <<"break", "Break">>, <<"return", "Return">>,
       <<"true", "ValTrue">>, <<"false", "ValFalse">>, <<"none", "ValNone">>,
       <<"and", "BoolAnd">>, <<"or", "BoolOr">>, <<"new", "New">> >>

\* parser.rs 209-245
KeywordTexts == [i \in 1..Len(Keywords) |-> Text(Keywords[i][1])]

word_token(position, current_token, end) ==
    Lexed(IF \E i \in 1..Len(Keywords) : KeywordTexts[i] = current_token
          THEN Tok(Keywords[CHOOSE i \in 1..Len(Keywords) :
                               KeywordTexts[i] = current_token][2], position)
          ELSE Ident(position, current_token),
          end)

word_end(text, at, end) == word_token(at, SubSeq(text, at + 1, end), end)

get_keyword_or_ident_token(text, at) ==
    word_end(text, at,
             Stop(text, at, LAMBDA ch : is_alphabetic(ch) \/ is_digit(ch) \/ ch = CharCode("_")))

\* str::parse::<u64> of digits
RECURSIVE parse_u64(_)
parse_u64(digits) ==
    IF digits = <<>> THEN 0
    ELSE 10 * parse_u64(SubSeq(digits, 1, Len(digits) - 1))
         + (digits[Len(digits)] - CharCode("0"))

RECURSIVE Pow10(_)
Pow10(n) == IF n = 0 THEN 1 ELSE 10 * Pow10(n - 1)

\* parser.rs 247-281 (the number has few enough digits for a u64 and an
\* f64 to hold it)
number_token(text, position, current_token, end) ==
    LET dots == {i \in 1..Len(current_token) : current_token[i] = CharCode(".")}
        digits == SelectSeq(current_token, LAMBDA ch : ch # CharCode("."))
    IN IF dots = {} THEN Lexed(ValInt(position, parse_u64(digits)), end)
       ELSE IF Cardinality(dots) > 1
       THEN LexError([kind |-> "NumberFormat", pos |-> get_text_pos(position, text),
                      text |-> current_token], end)
       ELSE Lexed(ValFloat(position, parse_u64(digits),
                           Pow10(Len(current_token) - (CHOOSE i \in dots : TRUE))), end)

number_end(text, at, end) == number_token(text, at, SubSeq(text, at + 1, end), end)

get_number_token(text, at) ==
    number_end(text, at, Stop(text, at, LAMBDA ch : is_digit(ch) \/ ch = CharCode(".")))

\* parser.rs 295-299: the escapes
Escapes ==
    << <<CharCode("\\"), CharCode("\\")>>, <<CharCode("\""), CharCode("\"")>>,
       <<CharCode("n"), LineFeed[1]>>, <<CharCode("r"), CarriageReturn[1]>> >>

\* parser.rs 290-315: the loop of get_string_token, with position the index
\* of the opening quote and current_token the chars taken so far
RECURSIVE string_loop(_, _, _, _)
string_loop(text, position, at, current_token) ==
    IF at >= Len(text) THEN LexError(ErrEOF, at)
    ELSE IF text[at + 1] = CharCode("\\")
    THEN IF at + 1 >= Len(text) THEN LexError(ErrEOF, at + 1)
         ELSE IF \E i \in 1..Len(Escapes) : Escapes[i][1] = text[at + 2]
         THEN string_loop(text, position, at + 2,
                          Append(current_token,
                                 Escapes[CHOOSE i \in 1..Len(Escapes) :
                                             Escapes[i][1] = text[at + 2]][2]))
         ELSE LexError([kind |-> "InvalidEscape",
                        pos |-> get_text_pos(position + str_len(current_token) + 1, text),
                        text |-> <<text[at + 1], text[at + 2]>>], at + 1)
    ELSE IF text[at + 1] = CharCode("\"")
    THEN Lexed(ValString(position, current_token), at + 1)
    ELSE string_loop(text, position, at + 1, Append(current_token, text[at + 1]))

\* parser.rs 283-317
get_string_token(text, at) == string_loop(text, at, at + 1, <<>>)

\* parser.rs 363-380: the tokens of one char
Marks ==
    << <<"(", "LPar">>, <<")", "RPar">>, <<"[", "LBrack">>, <<"]", "RBrack">>,
       <<"{", "LBrace">>, <<"}", "RBrace">>, <<";", "Semi">>, <<",", "Comma">>,
       <<"+", "Add">>, <<"-", "Minus">>, <<"*", "Mul">>, <<"%", "Mod">>,
       <<"|", "BitOr">>, <<"^", "BitXOr">>, <<"&", "BitAnd">>, <<"$", "Concat">>,
       <<":", "Colon">>, <<".", "Get">> >>

\* no look at the char the iterator hands out next
NoLookahead(text, at, ch) == FALSE

\* the char the iterator hands out next is ch
NextIs(text, at, ch) == at < Len(text) /\ text[at + 1] = CharCode(ch)

\* parser.rs 361-478: the last arm of get_token_eof, for the char next with
\* index position, which the iterator has passed (at = position + 1)
MarkChars == [i \in 1..Len(Marks) |-> CharCode(Marks[i][1])]

get_operator_token(text, position, at) ==
    LET next == text[position + 1]
    IN CASE \E i \in 1..Len(Marks) : MarkChars[i] = next ->
                Lexed(Tok(Marks[CHOOSE i \in 1..Len(Marks) : MarkChars[i] = next][2],
                          position), at)
         [] next = CharCode("/") ->
                IF NextIs(text, at, "/") THEN Lexed(Tok("IntDiv", position), at + 1)
                ELSE Lexed(Tok("FloatDiv", position), at)
         [] next = CharCode("=") ->
                IF NextIs(text, at, "=") THEN Lexed(Tok("Equals", position), at + 1)
                ELSE Lexed(Tok("Assign", position), at)
         [] next = CharCode("!") ->
                IF NextIs(text, at, "=") THEN Lexed(Tok("NotEquals", position), at + 1)
                ELSE Lexed(Tok("BoolNot", position), at)
         [] next = CharCode("<") ->
                IF NextIs(text, at, "=") THEN Lexed(Tok("LessEquals", position), at + 1)
                ELSE IF NextIs(text, at, "<") THEN Lexed(Tok("BitLsh", position), at + 1)
                ELSE Lexed(Tok("LessThan", position), at)
         [] next = CharCode(">") ->
                IF NextIs(text, at, "=") THEN Lexed(Tok("GreaterEquals", position), at + 1)
                ELSE IF NextIs(text, at, ">")
                THEN IF NextIs(text, at + 1, ">")
                     THEN Lexed(Tok("BitURsh", position), at + 2)
                     ELSE Lexed(Tok("BitRsh", position), at + 1)
                ELSE Lexed(Tok("GreaterThan", position), at)
         [] OTHER -> LexError([kind |-> "NoToken", pos |-> get_text_pos(position, text),
                               ch |-> next], at)

\* parser.rs 335-338: whether the comment opened at position is a
\* multi-line one, and where its text begins
Multiline(text, position) == text[position + 2] = CharCode("#")
CommentText(text, position) == IF Multiline(text, position) THEN position + 2 ELSE position + 1

\* parser.rs 339-351: the loop that passes the chars of a comment, up to the
\* char that ends it, which it leaves to the iterator
CommentEnd(text, position) ==
    Stop(text, CommentText(text, position),
         LAMBDA ch : ch # (IF Multiline(text, position) THEN CharCode("#") ELSE LineFeed[1]))

\* parser.rs 319-481; resume is the end of a loop over white space or over
\* a comment: the loop returns the error EOF when the text ends first
\* (326, 340), and get_token_eof calls itself when it does not (332, 352)
RECURSIVE get_token_eof(_, _)
resume(text, end) ==
    IF end = Len(text) THEN LexError(ErrEOF, Len(text)) ELSE get_token_eof(text, end)

get_token_eof(text, at) ==
    IF at >= Len(text) THEN LexError(ErrEOF, at)
    ELSE IF is_whitespace(text[at + 1])
    THEN resume(text, Stop(text, at, is_whitespace))
    ELSE IF text[at + 1] = CharCode("#")
    THEN IF at + 1 >= Len(text) THEN LexError(ErrEOF, Len(text))
         ELSE resume(text, CommentEnd(text, at))
    ELSE IF is_alphabetic(text[at + 1]) THEN get_keyword_or_ident_token(text, at)
    ELSE IF is_digit(text[at + 1]) THEN get_number_token(text, at)
    ELSE IF text[at + 1] = CharCode("\"") THEN get_string_token(text, at)
    ELSE get_operator_token(text, at, at + 1)

\* parser.rs 483-497: the end of the text met anywhere is the token EOF
EndOfText(r) == IF ~r.ok /\ r.err.kind = "EOF" THEN Lexed(EOF, r.at) ELSE r

get_token(text, at) == EndOfText(get_token_eof(text, at))

(***************************************************************************)
(* parser.rs 593-1095: mod parser, the expressions.  An operator is the    *)
(* name of its variant.  The parser is the record of its iterator and its  *)
(* current token, of the activations of parse_ex (calls, the innermost     *)
(* last) and of what has become of the parse (parsed).  An activation      *)
(* holds the locals of parse_ex: output, opstack, previous (<<>> is None), *)
(* open_pars; stage tells whether its first element is yet to be read, and *)
(* pending and args tell which arm of its loop waits for the expression    *)
(* the activation above it parses.                                         *)
(***************************************************************************)
\* parser.rs 615-624: enum Expression
Value(token) == [x |-> "Value", token |-> token]
OperatorEx(op) == [x |-> "Operator", op |-> op]
Binary(l, r, op) == [x |-> "Binary", lhs |-> l, rhs |-> r, op |-> op]
CallEx(l, args) == [x |-> "Call", lhs |-> l, args |-> args]
Unary(e, op) == [x |-> "Unary", expr |-> e, op |-> op]

\* parser.rs 671-702
is_binary(op) == op \notin {"Neg", "BoolNot"}

\* parser.rs 704-725
precedence(op) ==
    CASE op \in {"LPar", "RPar", "ParGet", "Call"} -> 0
      [] op = "Get" -> 1
      [] op \in {"Neg", "BoolNot"} -> 2
      [] op \in {"IntDiv", "FloatDiv", "Mul", "Mod"} -> 3
      [] op \in {"Add", "Sub"} -> 4
      [] op \in {"BitLsh", "BitRsh", "BitURsh"} -> 5
      [] op \in {"LessEquals", "LessThan", "GreaterEquals", "GreaterThan"} -> 6
      [] op = "Concat" -> 7
      [] op \in {"Equals", "NotEquals"} -> 8
      [] op = "BitAnd" -> 9
      [] op = "BitXOr" -> 10
      [] op = "BitOr" -> 11
      [] op = "BoolAnd" -> 12
      [] op = "BoolOr" -> 13
      [] op = "Assign" -> 14

\* parser.rs 727-732
is_left_assoc(op) == op \notin {"Neg", "BoolNot", "Assign"}

\* the locals of parse_ex at its entry (parser.rs 978-982)
Entered == [output |-> <<>>, opstack |-> <<>>, previous |-> <<>>, open_pars |-> 0,
            stage |-> "first", pending |-> "none", args |-> <<>>]

\* the parser with an error returned, and with a panic
Failed(m, err) == [m EXCEPT !.parsed = [state |-> "error", err |-> err]]
Panicked(m) == [m EXCEPT !.parsed = [state |-> "panicked"]]
Parsing(m) == m.parsed.state = "parsing"

\* f of the parser unless an error or a panic has ended the parse (the ?
\* after a call)
Then(m, f(_)) == IF Parsing(m) THEN f(m) ELSE m

\* the activation parse_ex is in, and the parser with its locals changed
Innermost(m) == m.calls[Len(m.calls)]
WithLocals(m, a) == [m EXCEPT !.calls[Len(m.calls)] = a]

\* parser.rs 736-739
eaten(m, r) ==
    IF r.ok THEN [m EXCEPT !.iterator = r.at, !.current = r.token]
    ELSE [Failed(m, r.err) EXCEPT !.iterator = r.at]

eat(text, m) == eaten(m, get_token(text, m.iterator))

\* parser.rs 745-747
accept(m, kind) == m.current.kind = kind

\* parser.rs 749-762
expect(text, m, kind) ==
    IF accept(m, kind) THEN m
    ELSE Failed(m, [kind |-> "UnexpectedToken",
                    pos |-> get_text_pos(get_position(m.current), text),
                    expected |-> kind, got |-> m.current.kind])

\* parser.rs 887-922: the tokens that are one operator wherever they stand
Operators ==
    << <<"Add", "Add">>, <<"Mul", "Mul">>, <<"IntDiv", "IntDiv">>,
       <<"FloatDiv", "FloatDiv">>, <<"Mod", "Mod">>, <<"BitOr", "BitOr">>,
       <<"BitXOr", "BitXOr">>, <<"BitAnd", "BitAnd">>, <<"BitLsh", "BitLsh">>,
       <<"BitRsh", "BitRsh">>, <<"BitURsh", "BitURsh">>, <<"BoolAnd", "BoolAnd">>,
       <<"BoolOr", "BoolOr">>, <<"BoolNot", "BoolNot">>, <<"Assign", "Assign">>,
       <<"LessEquals", "LessEquals">>, <<"LessThan", "LessThan">>,
       <<"GreaterEquals", "GreaterEquals">>, <<"GreaterThan", "GreaterThan">>,
       <<"Concat", "Concat">>, <<"Equals", "Equals">>, <<"NotEquals", "NotEquals">>,
       <<"Get", "Get">>, <<"RPar", "RPar">>, <<"LBrack", "ParGet">> >>

\* parser.rs 882-946: the operator parse_operator makes of the current
\* token, "None" for Ok(None), "NotAccepted" for the error
operator_of(token, previous) ==
    CASE token.kind = "Minus" ->
             IF previous = <<>> THEN "Neg"
             ELSE IF previous[1].x = "Operator"
             THEN (IF previous[1].op = "RPar" THEN "Sub" ELSE "Neg")
             ELSE "Sub"
      [] token.kind = "LPar" ->
             IF previous = <<>> THEN "LPar"
             ELSE IF previous[1].x = "Operator"
             THEN (IF previous[1].op \in {"ParGet", "Call"} THEN "Call" ELSE "LPar")
             ELSE "Call"
      [] token.kind = "RBrack" -> "None"
      [] \E i \in 1..Len(Operators) : Operators[i][1] = token.kind ->
             Operators[CHOOSE i \in 1..Len(Operators) : Operators[i][1] = token.kind][2]
      [] OTHER -> "NotAccepted"

\* parser.rs 863-869: the tokens that are a value
Values == {"ValInt", "ValFloat", "ValNone", "ValFalse", "ValTrue", "ValString", "Ident"}

\* what parse_element returns: the parser and the element (<<>> is None)
Element(m, el) == [m |-> m, el |-> el]

\* parser.rs 858-880, for a current token that is neither new nor fun
parse_ex_primary(text, m) ==
    IF m.current.kind \in Values
    THEN Element(eat(text, m), <<Value(m.current)>>)
    ELSE Element(Failed(m, [kind |-> "NotAccepted", what |-> "primary",
                            pos |-> get_text_pos(get_position(m.current), text)]), <<>>)

\* parser.rs 951-964 with 947-948: an operator is an element once the token
\* after it has been read; when that fails, or when the token is no
\* operator, the element is a primary
operator_read(text, m, op, n) ==
    IF Parsing(n) THEN Element(n, <<OperatorEx(op)>>)
    ELSE parse_ex_primary(text, [m EXCEPT !.iterator = n.iterator])

element_of(text, m, op) ==
    IF op = "None" THEN Element(m, <<>>)
    ELSE IF op = "NotAccepted" THEN parse_ex_primary(text, m)
    ELSE operator_read(text, m, op, eat(text, m))

parse_element(text, m, previous) == element_of(text, m, operator_of(m.current, previous))

\* the operator stack and the output of an activation, and whether an
\* unwrap has found the output empty
Stacks(ops, out) == [opstack |-> ops, output |-> out, panicked |-> FALSE]
Underflow(s) == [s EXCEPT !.panicked = TRUE]

\* parser.rs 966-975 on the top of the operator stack, which is popped
process_op(s) ==
    LET op == s.opstack[Len(s.opstack)]
        rest == SubSeq(s.opstack, 1, Len(s.opstack) - 1)
        n == Len(s.output)
    IN IF is_binary(op)
       THEN IF n < 2 THEN Underflow(s)
            ELSE Stacks(rest, Append(SubSeq(s.output, 1, n - 2),
                                     Binary(s.output[n - 1], s.output[n], op)))
       ELSE IF n < 1 THEN Underflow(s)
            ELSE Stacks(rest, Append(SubSeq(s.output, 1, n - 1), Unary(s.output[n], op)))

\* parser.rs 1069-1074: the top of the operator stack goes before op
Yields(top, op) ==
    /\ top # "LPar"
    /\ \/ precedence(top) < precedence(op)
       \/ precedence(op) = precedence(top) /\ is_left_assoc(op)

\* the conditions of the loops that pop: parser.rs 1015 and 1029 and 1086
\* (all), 1053-1055 (down to a parenthesis, for RPar), 1069-1074 (for op)
Pops(top, op) ==
    CASE op = "all" -> TRUE
      [] op = "RPar" -> top # "LPar"
      [] OTHER -> Yields(top, op)

\* while the stack is not empty and the condition holds of its top:
\* process_op
RECURSIVE pop_while(_, _)
pop_while(s, op) ==
    IF s.panicked \/ s.opstack = <<>> THEN s
    ELSE IF ~Pops(s.opstack[Len(s.opstack)], op) THEN s
    ELSE pop_while(process_op(s), op)

pop_all(a) == pop_while(Stacks(a.opstack, a.output), "all")
pop_for(a, op) == pop_while(Stacks(a.opstack, a.output), op)

\* the locals with the stacks put back
Restacked(a, s) == [a EXCEPT !.opstack = s.opstack, !.output = s.output]

\* output.pop().unwrap() and the push of what make builds of the popped
\* expression: parser.rs 1021-1026 and 1044-1045
Replaced(m, make(_)) ==
    IF Innermost(m).output = <<>> THEN Panicked(m)
    ELSE WithLocals(m, [Innermost(m) EXCEPT
             !.output = Append(SubSeq(Innermost(m).output, 1, Len(Innermost(m).output) - 1),
                               make(Innermost(m).output[Len(Innermost(m).output)])),
             !.pending = "none", !.args = <<>>])

\* a call of parse_ex from an arm of the loop, which waits for it
Descend(m, pending) ==
    [WithLocals(m, [Innermost(m) EXCEPT !.pending = pending])
        EXCEPT !.calls = Append(@, Entered)]

\* parser.rs 1042-1045: the end of the Call arm
close_call(text, m) ==
    Then(Then(expect(text, m, "RPar"), LAMBDA n : eat(text, n)),
         LAMBDA n : Replaced(n, LAMBDA callee : CallEx(callee, Innermost(m).args)))

\* parser.rs 1034-1041: the arguments of the Call arm, one parse_ex each
call_args(text, m) ==
    IF accept(m, "RPar") THEN close_call(text, m) ELSE Descend(m, "Call")

\* parser.rs 1019-1026: the end of the ParGet arm, with rhs the expression
\* parsed
close_get(text, m, index) ==
    Then(Then(expect(text, m, "RBrack"), LAMBDA n : eat(text, n)),
         LAMBDA n : Replaced(n, LAMBDA target : Binary(target, index, "Get")))

\* parser.rs 1035-1039: an argument has been parsed
arg_taken(text, n) ==
    IF accept(n, "Comma") THEN Then(eat(text, n), LAMBDA k : Descend(k, "Call"))
    ELSE close_call(text, n)

next_arg(text, m, arg) ==
    arg_taken(text, WithLocals(m, [Innermost(m) EXCEPT !.args = Append(@, arg)]))

\* parser.rs 1012-1080: the arms for the operator op, the locals a having
\* taken the element
popped_arm(text, m, a, op, s) ==
    IF s.panicked THEN Panicked(m)
    ELSE CASE op = "ParGet" -> Descend(WithLocals(m, Restacked(a, s)), "ParGet")
           [] op = "Call" -> call_args(text, WithLocals(m, Restacked(a, s)))
           [] op = "RPar" ->
                  IF s.opstack = <<>> THEN Failed(m, [kind |-> "UnmatchedPar"])
                  ELSE WithLocals(m, [a EXCEPT
                           !.open_pars = @ - 1,
                           !.opstack = SubSeq(s.opstack, 1, Len(s.opstack) - 1),
                           !.output = s.output])
           [] OTHER -> WithLocals(m, [Restacked(a, s) EXCEPT !.opstack = Append(@, op)])

operator_arm(text, m, a, op) ==
    CASE op \in {"Neg", "BoolNot"} ->
             WithLocals(m, [a EXCEPT !.opstack = Append(@, op)])
      [] op = "LPar" ->
             WithLocals(m, [a EXCEPT !.opstack = Append(@, op), !.open_pars = @ + 1])
      [] op \in {"ParGet", "Call"} -> popped_arm(text, m, a, op, pop_all(a))
      [] OTHER -> popped_arm(text, m, a, op, pop_for(a, op))

\* parser.rs 984-995: the first element
first_taken(pe, a) ==
    IF ~Parsing(pe.m) THEN pe.m
    ELSE IF pe.el = <<>> THEN Panicked(pe.m)
    ELSE IF pe.el[1].x # "Operator"
    THEN WithLocals(pe.m, [a EXCEPT !.output = Append(@, pe.el[1])])
    ELSE WithLocals(pe.m, [a EXCEPT
             !.opstack = Append(@, pe.el[1].op),
             !.open_pars = IF pe.el[1].op = "LPar" THEN @ + 1 ELSE @])

first_read(m, pe) ==
    first_taken(pe, [Innermost(m) EXCEPT !.stage = "loop", !.previous = pe.el])

first_element(text, m) == first_read(m, parse_element(text, m, <<>>))

\* parser.rs 997-1001: the condition of the loop
Continues(m) ==
    ~(\/ m.current.kind \in {"Semi", "Comma", "RBrace", "RBrack"}
      \/ m.current.kind = "RPar" /\ Innermost(m).open_pars = 0)

\* parser.rs 1003-1083: one turn of the loop
turn_taken(text, pe, a) ==
    IF ~Parsing(pe.m) \/ pe.el = <<>> THEN pe.m
    ELSE IF pe.el[1].x # "Operator"
    THEN WithLocals(pe.m, [a EXCEPT !.output = Append(@, pe.el[1])])
    ELSE operator_arm(text, pe.m, a, pe.el[1].op)

turn_read(text, m, pe) == turn_taken(text, pe, [Innermost(m) EXCEPT !.previous = pe.el])

loop_turn(text, m) == turn_read(text, m, parse_element(text, m, Innermost(m).previous))

\* the return of Ok(expr) to the caller: the arm of the activation beneath
\* that waits for it, or run_parser
returned(text, m, expr) ==
    IF m.calls = <<>> THEN [m EXCEPT !.parsed = [state |-> "ok", expr |-> expr]]
    ELSE IF Innermost(m).pending = "ParGet" THEN close_get(text, m, expr)
    ELSE next_arg(text, m, expr)

\* parser.rs 1086-1094: the end of parse_ex
loop_popped(text, m, s) ==
    IF s.panicked THEN Panicked(m)
    ELSE IF Len(s.output) # 1 THEN Failed(m, [kind |-> "TooMuchOutput"])
    ELSE returned(text, [m EXCEPT !.calls = SubSeq(@, 1, Len(@) - 1)], s.output[1])

loop_end(text, m) == loop_popped(text, m, pop_all(Innermost(m)))

(***************************************************************************)
(* parser.rs 506-513 and 1213-1226: run_lexer and run_parser, the two ways *)
(* the tests of the file run it: one get_token on a text, and parse_ex on  *)
(* a text after the get_token for its first token.  parsed.state tells     *)
(* which of the two is to run (lexer, parser) and what came of it (token,  *)
(* no_token; parsing, ok, error, panicked).                                *)
(***************************************************************************)
\* the names of the binary operators and of the values in the texts parsed
Infix ==
    << "=", "or", "and", "|", "^", "&", "==", "!=", "<", "<=", ">", ">=", "$", "<<", ">>",
       ">>>", "+", "-", "*", "/", "//", "%" >>

\* a op1 b op2 c;
Mixed(i, j) == Text("a " \o Infix[i] \o " b " \o Infix[j] \o " c;")

\* ßuperĸööl
Superkool == <<223, 117, 112, 101, 114, 312, 246, 246, 108>>

\* the text of test_util_get_text_pos (parser.rs 73)
FunMain == Text("fun main(") \o LineFeed \o Text(") test123")

\* the lexemes of the multi-char operators and their one-char beginnings
Compound == <<"/", "//", "=", "==", "!", "!=", "<", "<=", "<<", ">", ">=", ">>", ">>>">>

\* the texts run_lexer is given: every lexeme alone and with text after it,
\* words, numbers, strings and comments, closed and not
Lexemes ==
    [i \in 1..Len(Keywords) |-> Keywords[i][1]] \o [i \in 1..Len(Marks) |-> Marks[i][1]]
        \o Compound

LexTexts ==
    [i \in 1..Len(Lexemes) |-> Text(Lexemes[i])]
    \o [i \in 1..Len(Lexemes) |-> Text(Lexemes[i] \o " x")]
    \o [i \in 1..Len(Compound) |-> Text(Compound[i] \o "x")]
    \o << Superkool, Text("funny"), Text("iff"), Text("x_1 y"), Text("for"), Text("in"),
          Text("Zz9"), Text("42"), Text("12.5"), Text("1.2.3"), Text("7;"),
          Text("\"ab\""), Text("\"a\\\"b\\\\\" x"), Text("\"a\\nb\\r\""), Text("\"a\\qb\""),
          Text("\"ab"), Text("\""), Text("\"ab\\"), Text("\"a\\\""),
          Text("\"a") \o LineFeed \o Text("b;"), Text("\"") \o Superkool,
          Text("## c ## x"), Text("##c##x"), Text("####x"), Text("## c ##") \o LineFeed \o Text("y"),
          Text("## a # b ## x"), Text("## c ##"), Text("## c ## 7"), Text("## c ## ## d ## x"),
          Text("## c"), Text("##"), Text("## c #"), Text("##") \o LineFeed \o Text("x"),
          Text("#"), Text("# c"), Text("# c") \o LineFeed \o Text("x"),
          Text("# c") \o LineFeed \o Text("  while"), Text("#") \o LineFeed \o Text("7"),
          Text("# c # d") \o LineFeed \o Text(">>"), Text("# c") \o LineFeed,
          FunMain, Superkool \o LineFeed \o Text("x = 1;"),
          Text(""), Text("  "), Text("  x"), LineFeed \o Text("x"), Text("@"), Text("~ x") >>

\* the texts run_parser is given with parse_ex: two binary operators
\* between three names, and expressions with unary operators, parentheses,
\* calls, indices and accesses, well-formed and not
ExprTexts ==
    [k \in 1..(Len(Infix) * Len(Infix)) |->
        Mixed(((k - 1) \div Len(Infix)) + 1, ((k - 1) % Len(Infix)) + 1)]
    \o << Text("a;"), Text("a + f(x);"), Text("xs[0] - 1;"), Text("f(x) - 1;"),
          Text("a = b = c;"), Text("a - b - c;"), Text("- a * b;"), Text("! a == b;"),
          Text("a * - b;"), Text("(a + b) * c;"), Text("a * (b + c);"), Text("(a) - 1;"),
          Text("f();"), Text("f(x, y);"), Text("f(x)(y);"), Text("xs[0][1];"),
          Text("a.b + c;"), Text("a + b.c;"), Text("f(x;"), Text("xs[0;"), Text("a + ;"),
          Text("];"), Text(");"), Text("a b;"), Text("a +"), Text("a"), Text("(a;"),
          Text("a));"), Text("a + @;"), Text("@"), Text("f(g(x), y) + 1;"),
          Text("a < b $ c;"), Text("1 + 2.5 * \"s\";"), Text("-a;"), Text("f(-a);"),
          Text("a + f(x) * b;"), Text("a * f(x);"), Text("xs[i + 1];") >>

\* the parser as one record
Machine == [iterator |-> iterator, current |-> current, calls |-> calls, parsed |-> parsed]

\* the parser is as the record says
Becomes(m) ==
    /\ iterator' = m.iterator
    /\ current' = m.current
    /\ calls' = m.calls
    /\ parsed' = m.parsed

ParserInit ==
    /\ \/ \E i \in 1..Len(LexTexts) : contents = LexTexts[i] /\ parsed = [state |-> "lexer"]
       \/ \E i \in 1..Len(ExprTexts) : contents = ExprTexts[i] /\ parsed = [state |-> "parser"]
    /\ iterator = 0
    /\ current = NoToken
    /\ calls = <<>>
    /\ CgIdle
    /\ VmIdle
    /\ GcIdle
    /\ OpIdle
    /\ UnitIdle

Elsewhere == UNCHANGED <<contents, cgvars, vmvars, gcvars, opvars, unitvars>>

\* parser.rs 506-513: run_lexer, one get_token
run_lexer(m, r) ==
    IF r.ok THEN [m EXCEPT !.iterator = r.at, !.current = r.token,
                           !.parsed = [state |-> "token"]]
    ELSE [m EXCEPT !.iterator = r.at, !.parsed = [state |-> "no_token", err |-> r.err]]

RunLexer ==
    /\ parsed.state = "lexer"
    /\ Becomes(run_lexer(Machine, get_token(contents, iterator)))
    /\ Elsewhere

\* parser.rs 1217-1225: run_parser up to the call of parse_ex
RunParser ==
    /\ parsed.state = "parser"
    /\ Becomes(Then(eat(contents, [Machine EXCEPT !.parsed = [state |-> "parsing"]]),
                    LAMBDA m : [m EXCEPT !.calls = <<Entered>>]))
    /\ Elsewhere

\* the token is one parse_ex_primary is modelled for
Modelled == current.kind \notin {"New", "Fun"}

\* parser.rs 984-995
ParseFirst ==
    /\ parsed.state = "parsing"
    /\ Innermost(Machine).stage = "first"
    /\ Modelled
    /\ Becomes(first_element(contents, Machine))
    /\ Elsewhere

\* parser.rs 997-1084
ParseLoop ==
    /\ parsed.state = "parsing"
    /\ Innermost(Machine).stage = "loop"
    /\ Continues(Machine)
    /\ Modelled
    /\ Becomes(loop_turn(contents, Machine))
    /\ Elsewhere

\* parser.rs 1086-1094, and the arm of the caller that waited
ParseEnd ==
    /\ parsed.state = "parsing"
    /\ Innermost(Machine).stage = "loop"
    /\ ~Continues(Machine)
    /\ Becomes(loop_end(contents, Machine))
    /\ Elsewhere

ParserNext ==
    \/ RunLexer
    \/ RunParser
    \/ ParseFirst
    \/ ParseLoop
    \/ ParseEnd

ParserSpec == ParserInit /\ [][ParserNext]_vars

(***************************************************************************)
(* Scopes, calls and the values the interpreter leaves behind.             *)
(***************************************************************************)
\* the scopes from id outwards
RECURSIVE Chain(_, _)
Chain(ss, id) == IF id = 0 THEN <<>> ELSE <<id>> \o Chain(ss, ss[id].parent)

\* the places of Chain(ss, id) whose scope defines name
Definers(ss, id, name) ==
    {i \in 1..Len(Chain(ss, id)) : name \in DOMAIN ss[Chain(ss, id)[i]].variables}

Nearest(ss, id, name) ==
    Chain(ss, id)[CHOOSE i \in Definers(ss, id, name) :
                      \A j \in Definers(ss, id, name) : i <= j]

\* Store is about to call scope.store(name, value)
Storing == At({"Store"})

\* Call is about to run a Function for which the stack holds enough values
Calling ==
    /\ At({"Call"})
    /\ IsRef(heap, Peek(1), "Function")
    /\ Len(Popped(1)) >= Len(heap[Peek(1).value].obj.args)

Callee == heap[Peek(1).value].obj

Finished == status \in {"done", "failed", "panicked"}

\* C1: a store(name, v) on a scope whose own map does not define name while
\* an ancestor does leaves the nearest defining ancestor mapping name to v
\* and adds no binding for name to the innermost scope.
C1_StoreUpdatesAncestor ==
    [][(/\ Storing
        /\ Cur.name \notin DOMAIN scopes[Top.scope].variables
        /\ Definers(scopes, Top.scope, Cur.name) # {})
       => /\ Cur.name \in DOMAIN scopes'[Nearest(scopes, Top.scope, Cur.name)].variables
          /\ scopes'[Nearest(scopes, Top.scope, Cur.name)].variables[Cur.name] = Peek(1)
          /\ Cur.name \notin DOMAIN scopes'[Top.scope].variables]_vars

\* C2: the counter program prints 1, then 2, then 3 and finishes without a
\* runtime error.
C2_ClosureCounts ==
    (program.name = "closure" /\ Finished) =>
        (status = "done" /\ output = <<"1", "2", "3">>)

\* C3: a call of a function of n parameters with k < n arguments ends the
\* run with CallArgs(expected n, got k) whatever else the caller's stack
\* holds, and no parameter is ever bound to a value that was not pushed as
\* an argument of the call.
C3_TooFewArguments ==
    (program.name = "call" /\ program.k < program.n) =>
        /\ Finished =>
              /\ status = "failed"
              /\ errors[1].data = CallArgs(program.n, program.k)
        /\ \A s \in 1..Len(scopes) : \A i \in 1..program.n :
              Param(i) \in DOMAIN scopes[s].variables =>
                  scopes[s].variables[Param(i)] \in {Integer(Arg(j)) : j \in 1..program.k}

\* C4 as stated: the values popped are bound in reverse order, the last
\* pushed argument to the first parameter p1.
C4_LastPushedToFirst ==
    [][Calling =>
        \A i \in 1..Len(Callee.args) :
            scopes'[Len(scopes')].variables[Callee.args[i]]
                = Popped(1)[Len(Popped(1)) - i + 1]]_vars

\* C4, amended: the n values on top of the stack below the callee are bound
\* to the parameters in the order they were pushed: the last pushed
\* argument to the last parameter pn, the one pushed before it to the one
\* before pn, and so on down to p1.
C4_LastPushedToLast ==
    [][Calling =>
        \A i \in 1..Len(Callee.args) :
            scopes'[Len(scopes')].variables[Callee.args[i]]
                = Popped(1)[Len(Popped(1)) - Len(Callee.args) + i]]_vars

\* f(11, 12) has been called: p1 is 11 and p2 is 12
C4_Witness ==
    /\ program = [name |-> "call", n |-> 2, k |-> 2, beneath |-> 1]
    /\ status = "running"
    /\ Len(frames) = 2
    /\ Top.ip = 0
    /\ scopes[Top.scope].variables[Param(1)] = Integer(Arg(1))
    /\ scopes[Top.scope].variables[Param(2)] = Integer(Arg(2))

\* the activations below the innermost one whose scope defines name
CallerDefiners(name) ==
    {j \in 1..(Len(frames) - 1) : name \in DOMAIN scopes[frames[j].scope].variables}

NearestCaller(name) ==
    CHOOSE j \in CallerDefiners(name) : \A k \in CallerDefiners(name) : k <= j

\* C5: every call of a Function runs the callee in a new scope that holds
\* the parameters only and whose parent is the scope of the calling
\* activation; a variable the callee reads without defining it is the one
\* visible from the nearest calling activation that defines it; and the
\* scope is gone when the callee returns.
C5_DynamicParent ==
    [][/\ Calling =>
            /\ Len(scopes') = Len(scopes) + 1
            /\ SubSeq(scopes', 1, Len(scopes)) = scopes
            /\ scopes'[Len(scopes')].parent = Top.scope
            /\ DOMAIN scopes'[Len(scopes')].variables = Range(Callee.args)
            /\ frames'[Len(frames')].scope = Len(scopes')
       /\ (/\ At({"Load"})
           /\ Len(frames) > 1
           /\ Cur.name \notin DOMAIN scopes[Top.scope].variables
           /\ CallerDefiners(Cur.name) # {}) =>
            /\ status' = "running"
            /\ frames'[Len(frames')].stack
                 = Append(Top.stack,
                          scopes[frames[NearestCaller(Cur.name)].scope].variables[Cur.name])
       /\ (At({"Return"}) /\ Len(frames) > 1) =>
            /\ Top.scope = Len(scopes)
            /\ scopes' = SubSeq(scopes, 1, Len(scopes) - 1)]_vars

\* g, made at the top level and called by h(5), has read h's z
C5_Witness ==
    /\ program.name = "dynamic"
    /\ status = "running"
    /\ Len(frames) = 3
    /\ scopes[Top.scope].parent = frames[2].scope
    /\ "z" \notin DOMAIN scopes[1].variables
    /\ Top.stack = <<Integer(5)>>

\* C6: when neither the innermost scope nor an ancestor defines name,
\* store(name, v) adds name -> v to the innermost scope and changes nothing
\* else in it or in any other scope.
C6_StoreCreatesInnermost ==
    [][(Storing /\ Definers(scopes, Top.scope, Cur.name) = {}) =>
          /\ Len(scopes') = Len(scopes)
          /\ scopes'[Top.scope].variables
               = MapInsert(scopes[Top.scope].variables, Cur.name, Peek(1))
          /\ scopes'[Top.scope].parent = scopes[Top.scope].parent
          /\ \A s \in 1..Len(scopes) : s # Top.scope => scopes'[s] = scopes[s]]_vars

\* mk's `c = 0` has made c in the scope of the call and not in the global
\* scope
C6_Witness ==
    /\ program.name = "closure"
    /\ status = "running"
    /\ Len(frames) = 2
    /\ scopes[2].parent = 1
    /\ "c" \in DOMAIN scopes[2].variables
    /\ scopes[2].variables["c"] = Integer(0)
    /\ "c" \notin DOMAIN scopes[1].variables

\* the pointers a cell of the heap holds
HeapRefs(h, i) ==
    CASE h[i].obj.r = "List" ->
            {h[i].obj.data[j].value :
                j \in {k \in 1..Len(h[i].obj.data) : IsPointer(h[i].obj.data[k])}}
      [] h[i].obj.r = "Bendy" ->
            {h[i].obj.data[j].value :
                j \in {k \in DOMAIN h[i].obj.data : IsPointer(h[i].obj.data[k])}}
      [] OTHER -> {}

RECURSIVE HeapReach(_, _)
HeapReach(h, set) ==
    IF UNION {HeapRefs(h, i) : i \in set} \subseteq set THEN set
    ELSE HeapReach(h, set \cup UNION {HeapRefs(h, i) : i \in set})

PointersIn(values) == {values[j].value : j \in {k \in DOMAIN values : IsPointer(values[k])}}

\* what the operand stacks, the function being run and the scopes refer to
Roots ==
    UNION {PointersIn(frames[f].stack) \cup PointersIn(<<frames[f].function>>) :
             f \in 1..Len(frames)}
      \cup UNION {PointersIn(scopes[s].variables) : s \in 1..Len(scopes)}

\* C9: a list or bendy the interpreter made that lies on a reference cycle
\* is freed once nothing on an operand stack and nothing in a scope leads
\* to it.
C9_CyclesReclaimed ==
    status # "aborted" =>
        \A i \in 1..Len(heap) :
            (/\ heap[i].obj.r \in {"List", "Bendy"}
             /\ i \in HeapReach(heap, HeapRefs(heap, i))
             /\ i \notin HeapReach(heap, Roots))
            => heap[i].freed

(***************************************************************************)
(* The collector.                                                          *)
(***************************************************************************)
\* what can be reached from root through list elements and bendy values
RECURSIVE Reachable(_, _)
Reachable(mem, set) ==
    IF UNION {Range(get_references(mem[p].data)) : p \in set} \subseteq set THEN set
    ELSE Reachable(mem, set \cup UNION {Range(get_references(mem[p].data)) : p \in set})

\* C7: a run(root) that returns has deallocated every object that was
\* allocated and cannot be reached from root, the members of a cycle
\* included.
C7_UnreachableFreed ==
    [][runs' = runs + 1 =>
        \A p \in Alive : p \notin Reachable(memory, last_root') => ~memory'[p].alive]_vars

\* C8: a run(root) that returns leaves every object that can be reached
\* from root allocated and as it was, so that it has deallocated only what
\* cannot be reached.
C8_ReachableKept ==
    [][runs' = runs + 1 =>
        \A p \in Reachable(memory, last_root') :
            memory'[p].alive /\ memory'[p] = memory[p]]_vars

(***************************************************************************)
(* Jump targets of compiled code.                                          *)
(***************************************************************************)
\* every jump of codes, and of every PushFun body in it, lands on an
\* operation of its own sequence
RECURSIVE JumpsInRange(_)
JumpsInRange(codes) ==
    \A i \in 0..(Len(codes) - 1) :
        LET c == codes[i + 1]
        IN /\ IsJump(c) => (0 <= i + c.off /\ i + c.off < Len(codes))
           /\ c.op = "PushFun" => JumpsInRange(c.codes)

\* the operation a path leads to
RECURSIVE CodeAt(_, _)
CodeAt(codes, path) ==
    IF Len(path) = 1 THEN codes[path[1] + 1]
    ELSE CodeAt(codes[path[1] + 1].codes, Tail(path))

IsPlaceholder(c) == c.op = "Goto" /\ c.off \in {BreakPlaceholder, ContinuePlaceholder}

NoPlaceholderLeft(codes, placed) == \A path \in placed : ~IsPlaceholder(CodeAt(codes, path))

RECURSIVE HasOp(_, _)
HasOp(codes, op) ==
    \E i \in 1..Len(codes) :
        codes[i].op = op \/ (codes[i].op = "PushFun" /\ HasOp(codes[i].codes, op))

\* C10: whenever generate_codes has returned successfully, every
\* Goto/JumpNot/Jump at index i with offset off of the top-level sequence
\* and of every nested PushFun body has 0 <= i + off < len(codes), and no
\* place where a break / continue placeholder was emitted still holds one.
C10_JumpsValid ==
    (phase = "compiled" /\ compiled.fine) =>
        /\ JumpsInRange(compiled.codes)
        /\ NoPlaceholderLeft(compiled.codes, compiled.placed)

\* a successfully compiled tree with a patched break or continue inside a
\* function body, and all three kinds of jump
C10_Witness ==
    /\ phase = "compiled"
    /\ compiled.fine
    /\ \E path \in compiled.placed : Len(path) > 1
    /\ HasOp(compiled.codes, "Jump")
    /\ HasOp(compiled.codes, "JumpNot")

(***************************************************************************)
(* Breaks and continues outside every loop.                                *)
(***************************************************************************)
\* the break and continue statements of a block that no while loop of the
\* block's own function body encloses; looped: the block lies in such a
\* loop.  The body of a function literal is a function body of its own.
RECURSIVE Stray(_, _)
Stray(block, looped) ==
    IF block = <<>> THEN 0
    ELSE LET st == Head(block)
             here == CASE st.s \in {"Break", "Continue"} -> IF looped THEN 0 ELSE 1
                       [] st.s = "While" -> Stray(st.block, TRUE)
                       [] st.s = "If" ->
                            Stray(st.block, looped) + Stray(st.elseblock, looped)
                       [] st.s = "Assign" /\ st.right.e = "Function" ->
                            Stray(st.right.block, FALSE)
                       [] OTHER -> 0
         IN here + Stray(Tail(block), looped)

\* the BreakOutsideWhile errors generate_codes has returned
BreakOutsideWhileCount ==
    Cardinality({i \in 1..Len(compiled.errors) :
                    compiled.errors[i].kind = "BreakOutsideWhile"})

\* C11: generate_codes reports exactly one BreakOutsideWhile for each break
\* or continue that no while loop of its function body encloses (all of
\* them, not only the first), and none for a break or continue inside a
\* while loop, also when it sits in if/else branches of the loop.
C11_EveryStrayBreakListed ==
    phase = "compiled" => BreakOutsideWhileCount = Stray(tree, FALSE)

(***************************************************************************)
(* The operators of operate.                                               *)
(***************************************************************************)
Returned == outcome.state = "returned"

\* the variant of a value: the variant of Object, and of RefObject for a
\* pointer
Variant(v) == get_type_name(cells, v)

\* an Integer or Float taken as the number it denotes, and the comparison of
\* two such numbers
Number(v) == IF v.t = "Integer" THEN Float(v.value, 1) ELSE v
NumericallyEqual(a, b) == Number(a).num * Number(b).den = Number(b).num * Number(a).den
NumericallyCompared(a, b, comparison) ==
    compare_int(Number(a).num * Number(b).den, Number(b).num * Number(a).den, comparison)

\* what Equals returns for the operands
EqualsOf(a, b) == operate(cells, a, b, "Equals", <<>>)

\* C12: Equals on an Integer and a Float is true exactly when the two are
\* numerically equal, in both operand orders; Equals on any other two values
\* of different variants is false; NotEquals is the negation of Equals.
C12_CrossEquality ==
    /\ (Returned /\ opcode = "Equals" /\ Variant(lhs) # Variant(rhs)) =>
           outcome.result = OkValue(Boolean(/\ IsNumber(lhs)
                                            /\ IsNumber(rhs)
                                            /\ NumericallyEqual(lhs, rhs)))
    /\ (Returned /\ opcode = "NotEquals") =>
           outcome.result = OkValue(Boolean(~EqualsOf(lhs, rhs).value.value))

\* one and the same value on both sides
SameValue(a, b) == a.t = b.t /\ a = b

\* C13: comparing two values (no NaN among them) never aborts, every value
\* equals itself, and x == y is what y == x is; functions that differ in the
\* number of their parameters, lists and bendies included.
C13_EqualityLaws ==
    (opcode = "Equals" /\ outcome.state # "called") =>
        /\ Returned
        /\ SameValue(lhs, rhs) => outcome.result = OkValue(Boolean(TRUE))
        /\ outcome.result = EqualsOf(rhs, lhs)

Comparisons == {"LessThan", "LessEquals", "GreaterThan", "GreaterEquals"}

\* C15: the four comparisons take every pair of numbers - Integer/Integer,
\* Float/Float, Integer/Float, Float/Integer - and return the Boolean of the
\* numeric comparison; only a pair with an operand that is no number raises
\* UnmatchingTypes.
C15_NumericComparisons ==
    (Returned /\ opcode \in Comparisons) =>
        IF IsNumber(lhs) /\ IsNumber(rhs)
        THEN outcome.result = OkValue(Boolean(NumericallyCompared(lhs, rhs, opcode)))
        ELSE outcome.result = Err(UnmatchingTypes(Variant(lhs), Variant(rhs)))

\* the quotient of two numbers, the divisor not 0, cut off toward zero
IntegerPart(a, b) ==
    Quot(Number(a).num * Number(b).den, Number(a).den * Number(b).num)

\* C16: IntDiv of two Integers returns the Integer quotient cut off toward
\* zero; with a Float among the operands it returns a Float, holding the
\* integer part of the quotient, never an Integer.
C16_IntDivResult ==
    (Returned /\ opcode = "IntDiv" /\ IsNumber(lhs) /\ IsNumber(rhs) /\ Number(rhs).num # 0) =>
        IF lhs.t = "Integer" /\ rhs.t = "Integer"
        THEN outcome.result = OkValue(Integer(IntegerPart(lhs, rhs)))
        ELSE outcome.result = OkValue(Float(IntegerPart(lhs, rhs), 1))

IsString(v) == IsRef(cells, v, "String")

\* C17: Concat returns a String whenever the left or the right operand is a
\* String, the other operand converted with to_string; a new List for two
\* Lists, a new Bendy for two Bendies; UnmatchingTypes for anything else.
C17_ConcatCoerces ==
    (Returned /\ opcode = "Concat") =>
        CASE IsString(lhs) \/ IsString(rhs) ->
               \E order \in Orders(cells) :
                   outcome.result = OkObject(RString(to_string(cells, lhs, order)
                                                         \o to_string(cells, rhs, order)),
                                             <<>>)
          [] IsRef(cells, lhs, "List") /\ IsRef(cells, rhs, "List") ->
               /\ outcome.result.ok
               /\ outcome.result.obj =
                      RList(cells[lhs.value].obj.data \o cells[rhs.value].obj.data)
          [] IsRef(cells, lhs, "Bendy") /\ IsRef(cells, rhs, "Bendy") ->
               /\ outcome.result.ok
               /\ outcome.result.obj.r = "Bendy"
          [] OTHER -> outcome.result = Err(UnmatchingTypes(Variant(lhs), Variant(rhs)))

\* a shift count of at least the bit width
AtLeastBits(v) == IF IsWide(v) THEN v.high > 0 ELSE v.value >= IntegerBits

\* C18: with a shift count s >= 64 BitLsh returns 0 and BitRsh the saturated
\* value (0 for a >= 0), for every such s, those from 2^32 on included; the
\* result is never that of a shift by s modulo 64 or modulo 2^32.
C18_ShiftSaturates ==
    (Returned /\ opcode \in Shifts /\ lhs.t = "Integer" /\ rhs.t = "Integer"
        /\ AtLeastBits(rhs)) =>
        IF opcode = "BitLsh" \/ lhs.value >= 0
        THEN outcome.result = OkValue(Integer(0))
        ELSE outcome.result \in {OkValue(Integer(0)), OkValue(Integer(-1))}

(***************************************************************************)
(* Bendies, and Put and Get on lists and strings.                          *)
(***************************************************************************)
\* C14: a bendy keeps its keys in the order they were first put, and the
\* order shows: printing lists the keys in that order, and two bendies with
\* the same pairs put in different orders are not equal.
C14_InsertionOrder ==
    (program.name = "bendy_order" /\ status = "done") =>
        output = <<"{a: 1, b: 2}", "{b: 2, a: 1}", "false">>

\* Put is about to run on a list with an Integer index
ListPut == At({"Put"}) /\ IsRef(heap, Peek(3), "List") /\ Peek(2).t = "Integer"

\* the list after a put of value at index i >= 0: padded with none up to i
Padded(data, i, value) ==
    [j \in 1..(IF i + 1 > Len(data) THEN i + 1 ELSE Len(data)) |->
        IF j = i + 1 THEN value ELSE IF j <= Len(data) THEN data[j] ELSE None]

\* C19: Put on a list takes exactly the Integer indices i >= 0: the list is
\* padded with none up to length i + 1 when i >= len, element i becomes the
\* value, every other element stays, and exactly three values are popped; a
\* negative index is rejected with a runtime error and leaves the list as
\* it was.
C19_ListPut ==
    [][ListPut =>
          IF Peek(2).value >= 0
          THEN /\ status' = "running"
               /\ heap'[Peek(3).value].obj.data =
                      Padded(heap[Peek(3).value].obj.data, Peek(2).value, Peek(1))
               /\ frames'[Len(frames)].stack = Popped(3)
          ELSE /\ status' = "failed"
               /\ heap'[Peek(3).value].obj.data = heap[Peek(3).value].obj.data]_vars

\* Get is about to run on a list or string with an Integer index
Getting ==
    /\ At({"Get"})
    /\ IsRef(heap, Peek(2), "List") \/ IsRef(heap, Peek(2), "String")
    /\ Peek(1).t = "Integer"

\* the elements of the list, the characters of the string
Items(o) == IF o.r = "List" THEN o.data ELSE o.value

\* what Get has pushed: the value on top of the stack afterwards
Pushed == frames'[Len(frames)].stack[Len(frames'[Len(frames)].stack)]

ScalarTarget ==
    \/ At({"Put"}) /\ ~Indexable(heap, Peek(3), {"List", "Bendy"})
    \/ At({"Get"}) /\ ~Indexable(heap, Peek(2), {"List", "String", "Bendy"})

\* C21: Put or Get on a target that is no indexable composite - an Integer,
\* Float, Boolean, none, function or native, for Put a String as well - ends
\* the run with the runtime error IncorrectType; the interpreter does not
\* abort.
C21_ScalarTargetFails ==
    [][ScalarTarget =>
          /\ status' = "failed"
          /\ Len(errors') = 1
          /\ errors'[1].data.kind = "IncorrectType"]_vars

\* what print(5 OP 2) and print("ab" $ "cd") print when the first operand
\* of the source is the left one, in the order of NonCommutative
LeftToRight ==
    << "3", "2", "2.5", "1", "20", "1", "abcd", "false", "false", "true", "true" >>

\* C22: a binary operation takes the top of the stack as its right operand
\* and the value beneath as its left one, so the source `a OP b` computes
\* a OP b and not b OP a: for Sub, IntDiv, FloatDiv, Mod, BitLsh, BitRsh,
\* Concat and the four comparisons the program prints the result of the
\* operands in source order.
C22_OperandOrder ==
    program.name = "binary" =>
        /\ status \notin {"failed", "panicked"}
        /\ status = "done" => output = <<LeftToRight[program.n]>>

\* 5 - 2 has run and printed 3, and "ab" $ "cd" has printed abcd
C22_Witness ==
    /\ program.name = "binary"
    /\ NonCommutative[program.n] \in {"Sub", "Concat"}
    /\ status = "done"
    /\ output \in {<<"3">>, <<"abcd">>}

\* a code vector and the bodies of the functions it pushes end with
\* PushNone, Return
RECURSIVE EndsWithReturn(_)
EndsWithReturn(codes) ==
    /\ Len(codes) >= 2
    /\ codes[Len(codes) - 1].op = "PushNone"
    /\ codes[Len(codes)].op = "Return"
    /\ \A i \in 1..Len(codes) : codes[i].op = "PushFun" => EndsWithReturn(codes[i].codes)

\* C29: every code vector generate_codes produces, for the top level and
\* for every function body, ends with PushNone, Return; so a body that runs
\* no return statement hands none to its caller, and the instruction
\* pointer of every activation is the index of an operation of its code.
C29_ImplicitReturn ==
    /\ \A i \in 1..Len(frames) :
           /\ EndsWithReturn(frames[i].codes)
           /\ frames[i].ip >= 0
           /\ frames[i].ip < Len(frames[i].codes)
    /\ (program.name = "implicit_return" /\ status = "done") => output = <<"none">>

\* the call of a function whose body has no return statement has returned
\* and its value has been printed
C29_Witness ==
    /\ program.name = "implicit_return"
    /\ status = "done"
    /\ output = <<"none">>

(***************************************************************************)
(* The collector's run.                                                    *)
(***************************************************************************)
\* C30: GarbageCollector.run returns for every heap and every root set, a
\* root set that reaches a reference cycle included: the first run on a
\* heap, which has no freed pointer to meet, never ends in an abort.
C30_RunTerminates == runs = 0 => gc_status # "aborted"

(***************************************************************************)
(* The compiled unit.                                                      *)
(***************************************************************************)
\* the run on the unit has come to its end
UnitRan == ~source /\ status # "running"

\* C23: the unit the compile command writes deserializes to the very codes
\* that were serialized, nested function bodies included, and the run on
\* the unit prints what the run on the source text printed (two runs that
\* both got past their allocations).
C23_RoundTripCompile ==
    /\ unit # <<>> =>
           /\ deserialize(unit).ok
           /\ deserialize(unit).value = Wrapped(generate_codes(ProgramTree(program)).codes)
    /\ (UnitRan /\ status # "aborted" /\ first.status # "aborted") =>
           output = first.output

\* main_compiler.rs 17: 0xBAFADACE as the four bytes of a little-endian u32
Magic == <<206, 218, 250, 186>>

\* C24: the unit the compile command writes starts with the bytes CE DA FA
\* BA, and the serialized codes follow them.
C24_MagicBytes ==
    unit # <<>> =>
        /\ Len(unit) >= Len(Magic)
        /\ SubSeq(unit, 1, Len(Magic)) = Magic
        /\ deserialize(SubSeq(unit, Len(Magic) + 1, Len(unit))).ok

(***************************************************************************)
(* The lexer and the expression parser.                                    *)
(***************************************************************************)
\* run_lexer has returned
Lexing == parsed.state \in {"token", "no_token"}

\* a string literal at the start of the text that no quote closes, a
\* multi-line comment at the start of the text that no # closes
UnclosedString(text) ==
    /\ text # <<>>
    /\ text[1] = CharCode("\"")
    /\ \A i \in 2..Len(text) : text[i] # CharCode("\"")

UnclosedComment(text) ==
    /\ Len(text) >= 2
    /\ text[1] = CharCode("#")
    /\ text[2] = CharCode("#")
    /\ \A i \in 3..Len(text) : text[i] # CharCode("#")

\* C25: get_token on a text that is an unclosed string literal or an
\* unclosed multi-line comment returns an error, the invalid token at the
\* offset where the literal or comment opens, and never the token EOF.
C25_UnclosedIsError ==
    (Lexing /\ (UnclosedString(contents) \/ UnclosedComment(contents))) =>
        /\ parsed.state = "no_token"
        /\ parsed.err.kind = "NoToken"
        /\ parsed.err.pos = get_text_pos(0, contents)

\* the text is a multi-line comment, closed by the ## at the chars with
\* indices k and k + 1, and text without a # after it
ClosedComment(text, k) ==
    /\ k >= 2
    /\ k + 2 <= Len(text)
    /\ text[1] = CharCode("#")
    /\ text[2] = CharCode("#")
    /\ \A i \in 3..Len(text) : text[i] = CharCode("#") <=> i \in {k + 1, k + 2}

\* the text is a single-line comment, ended by the line feed with index k,
\* and text without a # after it
LineComment(text, k) ==
    /\ k >= 1
    /\ k + 1 <= Len(text)
    /\ text[1] = CharCode("#")
    /\ text[2] # CharCode("#")
    /\ text[k + 1] = LineFeed[1]
    /\ \A i \in 2..k : text[i] # LineFeed[1]
    /\ \A i \in (k + 2)..Len(text) : text[i] # CharCode("#")

\* run_lexer has returned what get_token returns from the iterator at
SameAsFrom(at) ==
    IF get_token(contents, at).ok
    THEN /\ parsed.state = "token"
         /\ current.kind = get_token(contents, at).token.kind
         /\ current = get_token(contents, at).token
    ELSE /\ parsed.state = "no_token"
         /\ parsed.err.kind = get_token(contents, at).err.kind

\* C26: get_token on a text that starts with a multi-line comment returns
\* what it returns for the text after the closing ##, and on a text that
\* starts with a single-line comment what it returns for the next line.
C26_CommentsEnd ==
    Lexing =>
        \A k \in 1..Len(contents) :
            /\ ClosedComment(contents, k) => SameAsFrom(k + 2)
            /\ LineComment(contents, k) => SameAsFrom(k + 1)

\* parser.rs 526-589: the lexemes of test_lexer_tokens and their tokens
test_lexer_tokens ==
    << <<"fun", "Fun">>, <<"if", "If">>, <<"else", "Else">>, <<"while", "While">>,
       <<"continue", "Continue">>, <<"break", "Break">>, <<"return", "Return">>,
       <<"and", "BoolAnd">>, <<"or", "BoolOr">>, <<"true", "ValTrue">>,
       <<"false", "ValFalse">>, <<"none", "ValNone">>, <<"new", "New">>,
       <<"(", "LPar">>, <<")", "RPar">>, <<"[", "LBrack">>, <<"]", "RBrack">>,
       <<"{", "LBrace">>, <<"}", "RBrace">>, <<";", "Semi">>, <<",", "Comma">>,
       <<"+", "Add">>, <<"-", "Minus">>, <<"*", "Mul">>, <<"%", "Mod">>, <<"|", "BitOr">>,
       <<"^", "BitXOr">>, <<"&", "BitAnd">>, <<"<<", "BitLsh">>, <<">>", "BitRsh">>,
       <<">>>", "BitURsh">>, <<"$", "Concat">>, <<"//", "IntDiv">>, <<"/", "FloatDiv">>,
       <<"=", "Assign">>, <<"==", "Equals">>, <<"!=", "NotEquals">>, <<"!", "BoolNot">>,
       <<"<", "LessThan">>, <<"<=", "LessEquals">>, <<">", "GreaterThan">>,
       <<">=", "GreaterEquals">>, <<":", "Colon">>, <<".", "Get">> >>

\* the text starts with the lexeme, and ends there or goes on with a space
\* and more
StartsWith(text, lexeme) == text \in {Text(lexeme), Text(lexeme \o " x")}

\* a word of letters that is no keyword
Word(text) ==
    /\ text # <<>>
    /\ \A i \in 1..Len(text) : is_alphabetic(text[i])
    /\ \A i \in 1..Len(test_lexer_tokens) : text # Text(test_lexer_tokens[i][1])

\* C27: get_token on a text that starts with a keyword, a punctuation mark
\* or an operator returns the token of that lexeme with offset 0, the
\* longest lexeme the text starts with, also when the text ends with it;
\* on a word of letters that is no keyword, multi-byte letters included, it
\* returns the Ident with offset 0 and the word as its text.
C27_LexemesAtStart ==
    Lexing =>
        /\ \A i \in 1..Len(test_lexer_tokens) :
               StartsWith(contents, test_lexer_tokens[i][1]) =>
                   /\ parsed.state = "token"
                   /\ current = Tok(test_lexer_tokens[i][2], 0)
                   /\ iterator = Len(test_lexer_tokens[i][1])
        /\ Word(contents) =>
               /\ parsed.state = "token"
               /\ current = Ident(0, contents)

\* >>> at the end of the text has been lexed as one token
C27_Witness ==
    /\ contents = Text(">>>")
    /\ parsed.state = "token"
    /\ current = Tok("BitURsh", 0)
    /\ iterator = Len(contents)

\* the operators of Infix and their levels in the grammar, lowest first:
\* assignment, or, and, bitwise or, xor, and, equality, comparison, concat,
\* shift, additive, multiplicative
InfixNames ==
    << "Assign", "BoolOr", "BoolAnd", "BitOr", "BitXOr", "BitAnd", "Equals", "NotEquals",
       "LessThan", "LessEquals", "GreaterThan", "GreaterEquals", "Concat", "BitLsh",
       "BitRsh", "BitURsh", "Add", "Sub", "Mul", "FloatDiv", "IntDiv", "Mod" >>

Levels ==
    << {"Assign"}, {"BoolOr"}, {"BoolAnd"}, {"BitOr"}, {"BitXOr"}, {"BitAnd"},
       {"Equals", "NotEquals"}, {"LessThan", "LessEquals", "GreaterThan", "GreaterEquals"},
       {"Concat"}, {"BitLsh", "BitRsh", "BitURsh"}, {"Add", "Sub"},
       {"Mul", "FloatDiv", "IntDiv", "Mod"} >>

Level(op) == CHOOSE l \in 1..Len(Levels) : op \in Levels[l]

\* run_parser has returned
Parsed == parsed.state \in {"ok", "error", "panicked"}

\* the expression is a op1 b op2 c with the operator of the higher level
\* applied first
Grouped(expr, op1, op2) ==
    /\ expr.x = "Binary"
    /\ IF Level(op2) > Level(op1)
       THEN /\ expr.op = op1
            /\ expr.lhs.x = "Value"
            /\ expr.rhs.x = "Binary"
            /\ expr.rhs.op = op2
       ELSE /\ expr.op = op2
            /\ expr.rhs.x = "Value"
            /\ expr.lhs.x = "Binary"
            /\ expr.lhs.op = op1

\* C28: parse_ex groups two operators of different levels so that the one
\* of the higher level binds tighter (assignment lowest, then or, and,
\* bitwise or, xor, and, equality, comparison, concat, shift, additive,
\* multiplicative, then the unary and the postfix operators): a < b $ c is
\* a < (b $ c), a + f(x) adds a call, xs[0] - 1 subtracts from an index;
\* and a = b = c is a = (b = c).
C28_Precedence ==
    Parsed =>
        /\ \A i, j \in 1..Len(Infix) :
               (contents = Mixed(i, j) /\ Level(InfixNames[i]) # Level(InfixNames[j])) =>
                   /\ parsed.state = "ok"
                   /\ Grouped(parsed.expr, InfixNames[i], InfixNames[j])
        /\ contents = Text("a = b = c;") =>
               /\ parsed.state = "ok"
               /\ parsed.expr.x = "Binary"
               /\ parsed.expr.op = "Assign"
               /\ parsed.expr.lhs.x = "Value"
               /\ parsed.expr.rhs.x = "Binary"
        /\ contents = Text("a + f(x);") =>
               /\ parsed.state = "ok"
               /\ parsed.expr.x = "Binary"
               /\ parsed.expr.op = "Add"
               /\ parsed.expr.rhs.x = "Call"
        /\ contents = Text("xs[0] - 1;") =>
               /\ parsed.state = "ok"
               /\ parsed.expr.x = "Binary"
               /\ parsed.expr.op = "Sub"
               /\ parsed.expr.lhs.x = "Binary"
               /\ parsed.expr.lhs.op = "Get"

(***************************************************************************)
(* The collector's bookkeeping.                                            *)
(***************************************************************************)
\* C31: over any sequence of alloc and run, an object a run has
\* deallocated is no longer in the collector's references, from where a
\* later run would take it, compare it and deallocate it again.
C31_FreedOnce == \A p \in references : memory[p].alive

(***************************************************************************)
(* Where the jumps of a while loop lead.                                   *)
(***************************************************************************)
\* the operations an expression, a statement, a block compiles to
ExprSize(x) == Len(generate_expr(x, <<>>, EmptyMap).codes)
StmtSize(st) == Len(generate_stmt(st, <<>>, EmptyMap).codes)
BlockSize(block) == Len(generate_block(block, <<>>, EmptyMap).codes)

\* the operation with index i of codes is the jump op and leads to target
LeadsTo(codes, i, op, target) ==
    /\ i < Len(codes)
    /\ codes[i + 1].op = op
    /\ i + codes[i + 1].off = target

\* no loop, and the loop whose condition starts at start and whose
\* backward Goto is followed by the operation exit
NoLoop == [looped |-> FALSE]
Loop(start, exit) == [looped |-> TRUE, start |-> start, exit |-> exit]

\* the jumps of the statements of block, compiled from index at of codes on
\* inside the loop enclosing, lead where they should
RECURSIVE LoopTargets(_, _, _, _)
LoopTargets(block, codes, at, enclosing) ==
    IF block = <<>> THEN TRUE
    ELSE LET st == Head(block)
         IN /\ CASE st.s = "Break" ->
                      enclosing.looped => LeadsTo(codes, at, "Goto", enclosing.exit)
                 [] st.s = "Continue" ->
                      enclosing.looped => LeadsTo(codes, at, "Goto", enclosing.start)
                 [] st.s = "While" ->
                      LET c == ExprSize(st.condition)
                          b == BlockSize(st.block)
                      IN /\ LeadsTo(codes, at + c, "JumpNot", at + c + b + 2)
                         /\ LeadsTo(codes, at + c + b + 1, "Goto", at)
                         /\ LoopTargets(st.block, codes, at + c + 1,
                                        Loop(at, at + c + b + 2))
                 [] st.s = "If" ->
                      LET c == ExprSize(st.condition)
                          b == BlockSize(st.block)
                      IN /\ LoopTargets(st.block, codes, at + c + 1, enclosing)
                         /\ st.haselse =>
                                LoopTargets(st.elseblock, codes, at + c + b + 2, enclosing)
                 [] st.s = "Assign" /\ st.right.e = "Function" ->
                      /\ codes[at + 1].op = "PushFun"
                      /\ LoopTargets(st.right.block, codes[at + 1].codes, 0, NoLoop)
                 [] OTHER -> TRUE
            /\ LoopTargets(Tail(block), codes, at + StmtSize(st), enclosing)

\* C32: in the code of a successfully compiled tree, a break of a while
\* loop's body leads to the operation after the loop's backward Goto, a
\* continue to the first operation of the loop's condition, the loop's
\* JumpNot to where its breaks lead and its backward Goto to the first
\* operation of the condition; for the nearest loop around the break or
\* continue, also through if and else blocks.
C32_LoopJumps ==
    (phase = "compiled" /\ compiled.fine) => LoopTargets(tree, compiled.codes, 0, NoLoop)

\* a compiled loop in a loop, the inner one with a break or a continue
C32_Witness ==
    /\ phase = "compiled"
    /\ compiled.fine
    /\ \E i \in 1..Len(tree) :
        /\ tree[i].s = "While"
        /\ \E j \in 1..Len(tree[i].block) :
            /\ tree[i].block[j].s = "While"
            /\ \E k \in 1..Len(tree[i].block[j].block) :
                tree[i].block[j].block[k].s \in {"Break", "Continue"}

(***************************************************************************)
(* The operand stack between statements.                                   *)
(***************************************************************************)
\* the bodies of the function literals of an expression, of expressions and
\* of a block, one after the other, with the bodies inside them
RECURSIVE BodiesOfExpr(_)
RECURSIVE BodiesOfExprs(_)
RECURSIVE BodiesOfBlock(_)
BodiesOfExpr(x) ==
    CASE x.e = "Function" -> <<x.block>> \o BodiesOfBlock(x.block)
      [] x.e = "Binary" -> BodiesOfExpr(x.left) \o BodiesOfExpr(x.right)
      [] x.e = "Unary" -> BodiesOfExpr(x.expression)
      [] x.e = "Index" -> BodiesOfExpr(x.expression) \o BodiesOfExpr(x.index)
      [] x.e = "Call" -> BodiesOfExprs(x.args) \o BodiesOfExpr(x.expression)
      [] x.e = "List" -> BodiesOfExprs(x.elements)
      [] x.e = "Bendy" -> BodiesOfExprs([i \in 1..Len(x.elements) |-> x.elements[i][2]])
      [] OTHER -> <<>>

BodiesOfExprs(xs) ==
    IF xs = <<>> THEN <<>> ELSE BodiesOfExpr(Head(xs)) \o BodiesOfExprs(Tail(xs))

BodiesOfBlock(block) ==
    IF block = <<>> THEN <<>>
    ELSE LET st == Head(block)
         IN (CASE st.s = "Return" -> BodiesOfExpr(st.value)
               [] st.s = "If" ->
                    BodiesOfExpr(st.condition) \o BodiesOfBlock(st.block)
                        \o BodiesOfBlock(st.elseblock)
               [] st.s = "While" -> BodiesOfExpr(st.condition) \o BodiesOfBlock(st.block)
               [] st.s = "Call" -> BodiesOfExprs(st.args) \o BodiesOfExpr(st.expression)
               [] st.s = "Assign" -> BodiesOfExpr(st.left) \o BodiesOfExpr(st.right)
               [] st.s = "Block" -> BodiesOfBlock(st.statements)
               [] OTHER -> <<>>)
            \o BodiesOfBlock(Tail(block))

\* the blocks of a program that are compiled into a code vector of their own
Units(block) == <<block>> \o BodiesOfBlock(block)

\* the indices, in the code of a block compiled from index at on, where a
\* statement of the block (at any depth short of a function body) starts
\* or has just been completed
RECURSIVE Boundaries(_, _)
Boundaries(block, at) ==
    IF block = <<>> THEN {at}
    ELSE LET st == Head(block)
         IN {at}
            \cup (CASE st.s = "While" ->
                         Boundaries(st.block, at + ExprSize(st.condition) + 1)
                    [] st.s = "If" ->
                         Boundaries(st.block, at + ExprSize(st.condition) + 1)
                         \cup (IF st.haselse
                               THEN Boundaries(st.elseblock,
                                               at + ExprSize(st.condition)
                                                  + BlockSize(st.block) + 2)
                               ELSE {})
                    [] st.s = "Block" -> Boundaries(st.statements, at)
                    [] OTHER -> {})
            \cup Boundaries(Tail(block), at + StmtSize(st))

\* the activation is between two statements of the block it runs
BetweenStatements(block, frame) ==
    \E i \in 1..Len(Units(block)) :
        /\ frame.codes = generate_codes(Units(block)[i]).codes
        /\ frame.ip \in Boundaries(Units(block)[i], 0)

\* every call of the program passes as many arguments as the callee takes
ExactArity ==
    /\ program.name # "operand"
    /\ program.name = "call" => (program.n = program.k /\ program.beneath = 0)

\* C33: running generated code whose calls all pass as many arguments as
\* the callee has parameters, the operand stack of every activation is
\* empty whenever the activation is between two statements: before a
\* statement starts and after it has completed, in every iteration of a
\* loop.
C33_StackEmptyBetweenStatements ==
    (source /\ ExactArity) =>
        \A i \in 1..Len(frames) :
            BetweenStatements(ProgramTree(program), frames[i]) => frames[i].stack = <<>>

\* the loop of the stack program is in its second turn, after the calls of
\* f and print and before its break
C33_Witness ==
    /\ program.name = "stack"
    /\ source
    /\ status = "running"
    /\ Len(frames) = 1
    /\ output # <<>>
    /\ Cur.op = "Goto"
    /\ BetweenStatements(ProgramTree(program), Top)
    /\ Top.stack = <<>>

(***************************************************************************)
(* `and` and `or`.                                                         *)
(***************************************************************************)
\* whether the value of a literal is truthy
Truth(x) ==
    CASE x.e = "Integer" -> x.value # 0
      [] x.e = "Boolean" -> x.value
      [] x.e = "String" -> x.value # ""
      [] OTHER -> FALSE

\* the operand of l and r, of l or r, that is evaluated last
LastEvaluated(operator, l, r) ==
    IF Truth(LogicOperands[l]) = (operator = "BoolAnd") THEN LogicOperands[r]
    ELSE LogicOperands[l]

\* the program print(l and r) or print(l or r) has evaluated the argument
\* and is about to load print
LogicEvaluated ==
    /\ source
    /\ program.name \in {"BoolAnd", "BoolOr"}
    /\ status = "running"
    /\ Len(frames) = 1
    /\ Top.ip = ExprSize(LogicExpr(program.name, program.n, program.k))

\* C34: `a and b` and `a or b` leave one value on the stack, the Boolean
\* that is the truthiness of the operand evaluated last, whatever the
\* types of the operands: 1 and 5 leaves the Boolean true.
C34_BooleanResult ==
    LogicEvaluated =>
        /\ Len(Top.stack) = 1
        /\ SameValue(Top.stack[1],
                     Boolean(Truth(LastEvaluated(program.name, program.n, program.k))))

\* a circuit program, and whether its left operand decides the result: a
\* falsy left operand of and, a truthy left operand of or
Circuit == source /\ program.name \in {"circuit_and", "circuit_or"}
Decided == (program.n = 0) = (program.name = "circuit_and")

\* start has returned
Ended == status \in {"done", "failed"}

\* the indices of the operations of the right operand in the code of a
\* circuit program: after the assignment of t, the left operand and the jump
RightOperations ==
    LET start == StmtSize(ProgramTree(program)[1])
                     + ExprSize(ProgramTree(program)[2].args[1].left) + 1
    IN start..(start + ExprSize(ProgramTree(program)[2].args[1].right) - 1)

\* C35: when the left operand of `and` is falsy, or that of `or` truthy, no
\* operation of the right operand is executed (t is not called again, u is
\* not loaded, no error is raised) and the result is false, respectively
\* true; otherwise the left operand is evaluated once and then the right
\* one.
C35_ShortCircuit ==
    Circuit =>
        /\ (Decided /\ status = "running") => frames[1].ip \notin RightOperations
        /\ (Decided /\ Ended) =>
               /\ status = "done"
               /\ output = <<ToString(program.n),
                             IF program.name = "circuit_and" THEN "false" ELSE "true">>
        /\ (~Decided /\ Ended /\ program.k = 2) =>
               /\ status = "failed"
               /\ output = <<ToString(program.n)>>
               /\ errors[1].data = VariableNotFound("u")
        /\ (~Decided /\ Ended /\ program.k # 2) =>
               /\ status = "done"
               /\ Len(output) = 3
               /\ output[1] = ToString(program.n)
               /\ output[2] = ToString(program.k)

\* print(t(0) and u) has ended: t was called once, u was not loaded and false
\* was printed
C35_Witness ==
    /\ Circuit
    /\ program = [name |-> "circuit_and", n |-> 0, k |-> 2, beneath |-> 0]
    /\ status = "done"
    /\ output = <<"0", "false">>

(***************************************************************************)
(* The positions of runtime errors.                                        *)
(***************************************************************************)
\* the indices, in the code of a block compiled from index at on, of the
\* Put operations of the block's assignments to an index or a member
RECURSIVE AssignmentPuts(_, _)
AssignmentPuts(block, at) ==
    IF block = <<>> THEN {}
    ELSE LET st == Head(block)
         IN (CASE st.s = "Assign" /\ st.left.e # "Variable" -> {at + StmtSize(st) - 1}
               [] st.s = "While" ->
                    AssignmentPuts(st.block, at + ExprSize(st.condition) + 1)
               [] st.s = "If" ->
                    AssignmentPuts(st.block, at + ExprSize(st.condition) + 1)
                    \cup AssignmentPuts(st.elseblock,
                                        at + ExprSize(st.condition) + BlockSize(st.block) + 2)
               [] st.s = "Block" -> AssignmentPuts(st.statements, at)
               [] OTHER -> {})
            \cup AssignmentPuts(Tail(block), at + StmtSize(st))

\* the activation is at the Put of an assignment
AtAssignmentPut(block, frame) ==
    \E i \in 1..Len(Units(block)) :
        /\ frame.codes = generate_codes(Units(block)[i]).codes
        /\ frame.ip \in AssignmentPuts(Units(block)[i], 0)

\* the operations that can raise a runtime error, but for Put
Raising == PlainBinaryOperators \cup {"Neg", "BoolNot", "Call", "Load", "Get"}

\* the source offsets of the constructs of an expression, of expressions
\* and of a block that compile to the operation c
RECURSIVE StartsOfExpr(_, _)
RECURSIVE StartsOfExprs(_, _)
RECURSIVE StartsOfBlock(_, _)
StartsOfExpr(x, c) ==
    CASE x.e = "Variable" -> IF c.op = "Load" /\ c.name = x.name THEN {x.start} ELSE {}
      [] x.e = "Binary" /\ x.operator = "Access" ->
           (IF c.op = "Get" THEN {x.start} ELSE {}) \cup StartsOfExpr(x.left, c)
      [] x.e = "Binary" ->
           (IF c.op = x.operator THEN {x.start} ELSE {})
               \cup StartsOfExpr(x.left, c) \cup StartsOfExpr(x.right, c)
      [] x.e = "Unary" ->
           (IF c.op = x.operator THEN {x.start} ELSE {}) \cup StartsOfExpr(x.expression, c)
      [] x.e = "Index" ->
           (IF c.op = "Get" THEN {x.start} ELSE {})
               \cup StartsOfExpr(x.expression, c) \cup StartsOfExpr(x.index, c)
      [] x.e = "Call" ->
           (IF c.op = "Call" THEN {x.start} ELSE {})
               \cup StartsOfExprs(x.args, c) \cup StartsOfExpr(x.expression, c)
      [] x.e = "List" -> StartsOfExprs(x.elements, c)
      [] x.e = "Bendy" -> StartsOfExprs([i \in 1..Len(x.elements) |-> x.elements[i][2]], c)
      [] x.e = "Function" -> StartsOfBlock(x.block, c)
      [] OTHER -> {}

StartsOfExprs(xs, c) ==
    IF xs = <<>> THEN {} ELSE StartsOfExpr(Head(xs), c) \cup StartsOfExprs(Tail(xs), c)

StartsOfBlock(block, c) ==
    IF block = <<>> THEN {}
    ELSE LET st == Head(block)
         IN (CASE st.s = "Return" -> StartsOfExpr(st.value, c)
               [] st.s = "If" ->
                    StartsOfExpr(st.condition, c) \cup StartsOfBlock(st.block, c)
                        \cup StartsOfBlock(st.elseblock, c)
               [] st.s = "While" ->
                    StartsOfExpr(st.condition, c) \cup StartsOfBlock(st.block, c)
               [] st.s = "Call" ->
                    (IF c.op = "Call" THEN {st.start} ELSE {})
                        \cup StartsOfExprs(st.args, c) \cup StartsOfExpr(st.expression, c)
               [] st.s = "Assign" /\ st.left.e = "Variable" -> StartsOfExpr(st.right, c)
               [] st.s = "Assign" /\ st.left.e = "Index" ->
                    (IF c.op = "Put" THEN {st.left.start} ELSE {})
                        \cup StartsOfExpr(st.left.expression, c)
                        \cup StartsOfExpr(st.left.index, c) \cup StartsOfExpr(st.right, c)
               [] st.s = "Assign" ->
                    (IF c.op = "Put" THEN {st.left.start} ELSE {})
                        \cup StartsOfExpr(st.left.left, c) \cup StartsOfExpr(st.right, c)
               [] st.s = "Block" -> StartsOfBlock(st.statements, c)
               [] OTHER -> {})
            \cup StartsOfBlock(Tail(block), c)

\* C36: running code compiled from source, the code_pos_table has an entry
\* for the index of every operation that can raise a runtime error (the
\* operators, Call, Load, Get, and the Put of an assignment), and the
\* position of a runtime error raised at an operation, in a function body
\* as well as at the top level, is the source offset of a construct that
\* compiles to that operation.
C36_ErrorPositions ==
    source =>
        /\ (status = "running"
                /\ (Cur.op \in Raising \/ AtAssignmentPut(ProgramTree(program), Top)))
               => Top.ip \in DOMAIN code_pos_table
        /\ (status = "failed" /\ "pos" \in DOMAIN errors[1])
               => errors[1].pos \in StartsOfBlock(ProgramTree(program), Cur)

(***************************************************************************)
(* The arithmetic of two Integers.                                         *)
(***************************************************************************)
\* C37: an operator applied to two Integers returns a result or a runtime
\* error value; no pair of Integers makes the operation panic.
C37_IntegerOperatorsReturn ==
    (lhs.t = "Integer" /\ rhs.t = "Integer") => outcome.state \in {"called", "returned"}

(***************************************************************************)
(* What a call binds.                                                      *)
(***************************************************************************)
\* one scope with the same parent and the same bindings
SameScope(a, b) ==
    /\ a.parent = b.parent
    /\ DOMAIN a.variables = DOMAIN b.variables
    /\ \A name \in DOMAIN a.variables : SameValue(a.variables[name], b.variables[name])

\* the parameters of the called function that the scope of the caller or
\* one of its ancestors binds
Shadowing == {i \in 1..Len(Callee.args) : Definers(scopes, Top.scope, Callee.args[i]) # {}}

\* C38: a Call of a Function binds the arguments in a new scope and leaves
\* every binding of the caller's scope and of its ancestors as it was, also
\* for a parameter named like a variable of the caller.
C38_BindingLeavesCaller ==
    [][Calling =>
          /\ Len(scopes') = Len(scopes) + 1
          /\ \A s \in 1..Len(scopes) : SameScope(scopes[s], scopes'[s])
          /\ \A i \in 1..Len(Callee.args) :
                 Callee.args[i] \in DOMAIN scopes'[Len(scopes')].variables]_vars

\* g runs with x = 6 in its scope, called by f with x = 5, called from the
\* top level with x = 1
C38_Witness ==
    /\ program.name = "shadow"
    /\ status = "running"
    /\ Len(frames) = 3
    /\ Len(scopes) = 3
    /\ scopes[3].parent = 2
    /\ scopes[2].parent = 1
    /\ "x" \in DOMAIN scopes[3].variables
    /\ "x" \in DOMAIN scopes[2].variables
    /\ "x" \in DOMAIN scopes[1].variables
    /\ scopes[3].variables["x"] = Integer(6)
    /\ scopes[2].variables["x"] = Integer(5)
    /\ scopes[1].variables["x"] = Integer(1)

(***************************************************************************)
(* Lines and columns.                                                      *)
(***************************************************************************)
\* the newlines among the first p chars of a text, as indices from 1
NewlinesBefore(p, text) == {i \in 1..p : text[i] = LineFeed[1]}

\* the offset at which the line of offset p starts
LineStartOf(p, text) ==
    IF NewlinesBefore(p, text) = {} THEN 0
    ELSE CHOOSE i \in NewlinesBefore(p, text) : \A j \in NewlinesBefore(p, text) : j <= i

\* line = 1 + the newlines before p, column = 1 + the chars between the
\* start of the line and p
LineAndColumn(p, text) ==
    [ln |-> 1 + Cardinality(NewlinesBefore(p, text)), col |-> 1 + p - LineStartOf(p, text)]

\* get_text_pos computes the pair for every offset of the text
TextPosRight ==
    \A p \in 0..Len(contents) : get_text_pos(p, contents) = LineAndColumn(p, contents)

\* C39: for every offset p of a text get_text_pos and get_line_and_column
\* both report line 1 + the newlines before p and column 1 + the chars
\* between the start of that line and p.
C39_LineAndColumn ==
    /\ TextPosRight
    /\ \A p \in 0..Len(contents) :
        /\ ~get_line_and_column(p, contents).overflow
        /\ get_line_and_column(p, contents).ln = LineAndColumn(p, contents).ln
        /\ get_line_and_column(p, contents).col = LineAndColumn(p, contents).col
====
